---- MODULE Spec2Model ----
(***************************************************************************)
(* Verification model of the research pipeline of NEXHACKSw:               *)
(*   - utils/rateLimiter.ts      createRateLimiter / processWithRetry      *)
(*   - clients/llmOrchestrator.ts  withTimeout / llmCompletion /           *)
(*                                 researchCompletion, llmStreamCompletion *)
(*   - clients/openrouter.ts       openrouterStream                        *)
(*   - orchestrator.ts             processRequest, streamTTS               *)
(*   - frontend hooks/useWebSocket.ts                                      *)
(* Each component has its own specification over the shared variables;     *)
(* the variables of the other component stay at their initial value.       *)
(***************************************************************************)
EXTENDS Integers, Sequences, FiniteSets, TLC

VARIABLES
  \* ---- rate limiter (createRateLimiter / processWithRetry) ----
  concurrency,    \* options.concurrency
  maxRetries,     \* options.maxRetries
  total,          \* items.length
  queue,          \* p-limit's FIFO queue of item indices not yet started
  activeCount,    \* p-limit's count of running functions
  pc,             \* per item: "queued" | "calling" | "sleeping" | "settled" |
                  \* "rejected" (its function threw) | "absent" (index > total)
  attempt,        \* per item: the loop variable `attempt`
  lastError,      \* per item: the local `lastError` (NoError = undefined)
  sleepMs,        \* per item: the argument of the current / latest sleep()
  invocations,    \* per item: number of processor(item, index) calls made
  completed,      \* the shared counter `completed`
  progressCalls,  \* per item: arguments of every onProgress call for it
  progressCompleted, \* the `completed` argument of every onProgress call, in order
  progressItems,  \* the `item` argument of every onProgress call, in order (kept
                  \* only where the order in which items complete is examined)
  results,        \* per item: value its limit(...) promise resolved with
  batch,          \* "pending" | "resolved" | "rejected": the promise of processWithRetry
  returned,       \* the array processWithRetry resolved with
  \* ---- research call (withTimeout / llmCompletion / researchCompletion) ----
  rcPc,           \* "init" | "primary" | "secondary" | "repair" | "done"
  attempts,       \* researchCompletion's `attempts`
  lastResponse,   \* researchCompletion's `lastResponse`
  lastProvider,   \* researchCompletion's `lastProvider`
  orch,           \* the OrchestrationResult llmCompletion returned (NoOrch: none)
  llmError,       \* the Error llmCompletion threw (NoLlmError: none)
  primaryError,   \* message of the error caught at llmCompletion's outer catch
  primaryPending, \* the openrouterCompletion promise has not settled
  timerPending,   \* withTimeout's setTimeout has not fired
  callLog,        \* every provider call issued, in order
  repairArgs,     \* every createRepairPrompt call: its two arguments and the
                  \* prompt it returned, which geminiSimpleCompletion was given
  query,          \* researchCompletion's argument `query`
  responses,      \* every response a provider call of this research call returned,
                  \* with the call that returned it
  outcome,        \* how researchCompletion ended (NoOutcome while it runs)
  \* ---- one call of the extractor (extractJSON / extractResearchResult) ----
  exPc,           \* "input" | "done"
  inputText,      \* the text handed to extractJSON / extractResearchResult
  before,         \* the part of the text in front of the embedded JSON object
  embedded,       \* the JSON object embedded in the text (<<>>: none was embedded)
  extractedJson,  \* what extractJSON(text) returned (ParseFail: null)
  extractedResearch, \* what extractResearchResult(text) returned (NullExtract: null)
  \* ---- one request (processRequest / processRows / generateVoiceSummary) ----
  rowData,        \* per row: row.data is an object (FALSE: the row came without data)
  rowEnv,         \* per row: how Primary and Secondary answer the calls made for it
  rowResearch,    \* per row: what researchCompletion resolves with when they answer so
  events,         \* per row: the onProgress events for it, in order, and between them
                  \* a "research" entry for each researchCompletion call begun
  processorResult, \* per row: the object its processor resolved with
  resultsMap,     \* processRows' Map `results`, which it returns
  reqPc,          \* "rows" | "aggregate" | "voice" | "tts" | "done"
  aggregated,     \* the summary mapReduceResearch resolved with
  voiceCalls,     \* how each geminiSimpleCompletion call of generateVoiceSummary ended
  voiceSummary,   \* processRequest's `voiceSummary`
  sent,           \* the research_complete message sent (NoneSent: not yet)
  messages,       \* the types of the messages sendMessage was called with, in order
  ttsSession,     \* the streaming text-to-speech session: "none" | "open" | "ended"
  \* ---- one call of mapSummarize ----
  mapped,         \* the results it was given and the summaries it returned
  \* ---- one call of reduceAggregate ----
  reduction,      \* its summaries, its position, the aggregateSummaries calls it
                  \* made, in order, and the summary it resolved with
  \* ---- one call of processSingleRow ----
  singleRow,      \* its row, its position, the onProgress events it emitted, in
                  \* order, and what it returned
  \* ---- one call of llmStreamCompletion / openrouterStream ----
  stream,         \* the response stream, the promise, the content so far and the
                  \* callbacks called, in order
  \* ---- one mounted useWebSocket hook ----
  hook            \* its sockets, its refs and its reconnect timers

rlVars == <<concurrency, maxRetries, total, queue, activeCount, pc, attempt,
            lastError, sleepMs, invocations, completed, progressCalls,
            progressCompleted, progressItems, results, batch, returned>>

rcVars == <<rcPc, attempts, lastResponse, lastProvider, orch, llmError,
            primaryError, primaryPending, timerPending, callLog, repairArgs,
            query, responses, outcome>>

exVars == <<exPc, inputText, before, embedded, extractedJson, extractedResearch>>

rwVars == <<rowData, rowEnv, rowResearch, events, processorResult, resultsMap, reqPc,
            aggregated, voiceCalls, voiceSummary, sent, messages, ttsSession>>

mrVars == <<mapped, reduction>>

srVars == <<singleRow>>

stVars == <<stream>>

wsVars == <<hook>>

vars == <<rlVars, rcVars, exVars, rwVars, mrVars, srVars, stVars, wsVars>>

----------------------------------------------------------------------------
(* Bounds of the model *)

\* largest number of items handed to processWithRetry
MaxItems == 3

\* largest configured concurrency besides the default
MaxConcurrency == 2

\* largest configured maxRetries
MaxRetriesOption == 4

\* largest number of tokens in front of an embedded JSON object
MaxPrefix == 2

\* largest number of tokens behind an embedded JSON object
MaxSuffix == 1

\* largest number of tokens of a text that embeds no object
MaxTextLen == 3

\* reduceAggregate is given at most MaxSummaries summaries: with 26 the first
\* level makes more chunk summaries than one chunk holds
MaxSummaries == 26

\* mapSummarize is given at most MaxResults results
MaxResults == 2

\* the key_findings of a result that has them: more than the 3 that are used
MaxFindings == 4

(* Program constants *)

DEFAULT_CONCURRENCY == 5

MAX_RETRIES == 3

INITIAL_BACKOFF_MS == 1000

MAX_REPAIR_ATTEMPTS == 2

NoError == [message |-> "<undefined>", at |-> -1]

\* the processor result `null`
Null == 0

\* a limit(...) promise that has not resolved
NoResult == [item |-> 0, result |-> Null, error |-> NoError]


Items == 1..MaxItems

----------------------------------------------------------------------------
(* utils/rateLimiter.ts *)

\* Messages of the Error objects a processor may throw.
Messages == {"HTTP 429", "rate limit exceeded", "too many requests", "socket hang up"}

\* A thrown value that is no Error and has no `message` (throw 'boom', reject(undefined)).
NoMessage == "<no message property>"

\* line 373: lastError.message.includes(...) is evaluated only if message is a string;
\* otherwise it raises a TypeError inside the catch block
HasMessageNever(error) == FALSE

HasMessage(error) == error.message # NoMessage

\* message.includes(needle) for the messages above
Includes(message, needle) ==
  CASE needle = "429" -> message = "HTTP 429"
    [] needle = "rate limit" -> message = "rate limit exceeded"
    [] needle = "too many requests" -> message = "too many requests"
    [] OTHER -> FALSE

\* lines 372-375
IsRateLimit(error) ==
  \/ Includes(error.message, "429")
  \/ Includes(error.message, "rate limit")
  \/ Includes(error.message, "too many requests")

RECURSIVE Pow2(_)
Pow2(n) == IF n = 0 THEN 1 ELSE 2 * Pow2(n - 1)

BackoffLinear(error, att) ==
  IF IsRateLimit(error) THEN INITIAL_BACKOFF_MS * (att + 1) ELSE INITIAL_BACKOFF_MS

\* lines 377-384: the delay slept after attempt `att` failed with `error`
Backoff(error, att) ==
  IF IsRateLimit(error) THEN INITIAL_BACKOFF_MS * Pow2(att) ELSE INITIAL_BACKOFF_MS

\* the value the processor resolves with for item i
ResultOf(i) == 100 + i

SlotFreeAlways == TRUE

\* a slot counted as free while fewer than `concurrency` processors are running
SlotFreeWhileSleeping == Cardinality({i \in Items : pc[i] = "calling"}) < concurrency

\* p-limit starts a queued function only while activeCount < concurrency
SlotFree == activeCount < concurrency

RetriesRemainAfterLast(att) == att < maxRetries

\* lines 377, 381: attempt < maxRetries - 1
RetriesRemain(att) == att < maxRetries - 1

\* line 362: attempt < maxRetries
LoopContinues(att) == att < maxRetries

ReleaseOnSuccessOnly(n, failed) == IF failed THEN n ELSE n - 1

\* p-limit's next(): activeCount-- once the function's promise has settled,
\* whether it resolved or rejected
Release(n, failed) == n - 1

KeepFirstError(old, error) == IF old = NoError THEN error ELSE old

\* line 369: lastError = error
AssignLastError(old, error) == error

\* The options and the items of one processWithRetry call. The configurations
\* explored are those whose total number of attempts, total * maxRetries, is at
\* most that of MaxItems items under the default MAX_RETRIES.
RLInit ==
  /\ concurrency \in 1..MaxConcurrency
  /\ maxRetries \in 1..MaxRetriesOption
  /\ total \in 0..MaxItems
  /\ total * maxRetries <= MaxItems * MAX_RETRIES
  /\ queue = [k \in 1..total |-> k]
  /\ activeCount = 0
  /\ pc = [i \in Items |-> IF i <= total THEN "queued" ELSE "absent"]
  /\ attempt = [i \in Items |-> 0]
  /\ lastError = [i \in Items |-> NoError]
  /\ sleepMs = [i \in Items |-> 0]
  /\ invocations = [i \in Items |-> 0]
  /\ completed = 0
  /\ progressCalls = [i \in Items |-> <<>>]
  /\ progressCompleted = <<>>
  /\ progressItems = <<>>
  /\ results = [i \in Items |-> NoResult]
  /\ batch = "pending"
  /\ returned = <<>>

\* lines 358-364: p-limit dequeues the item's function and runs it to the first await
StartCall(i) ==
  /\ queue # <<>> /\ Head(queue) = i
  /\ SlotFree
  /\ queue' = Tail(queue)
  /\ activeCount' = activeCount + 1
  /\ attempt' = [attempt EXCEPT ![i] = 0]
  /\ lastError' = [lastError EXCEPT ![i] = NoError]
  /\ invocations' = [invocations EXCEPT ![i] = @ + 1]
  /\ pc' = [pc EXCEPT ![i] = "calling"]
  /\ UNCHANGED <<concurrency, maxRetries, total, sleepMs, completed, progressCalls,
                 progressCompleted, results, batch, returned>>

\* lines 389-391 and p-limit's release: the item settles as failed.
\* The locals attempt / lastError go out of scope.
Exhausted(i, error) ==
  /\ completed' = completed + 1
  /\ progressCalls' = [progressCalls EXCEPT ![i] =
        Append(@, [result |-> Null, error |-> error])]
  /\ progressCompleted' = Append(progressCompleted, completed + 1)
  /\ results' = [results EXCEPT ![i] = [item |-> i, result |-> Null, error |-> error]]
  /\ activeCount' = Release(activeCount, TRUE)
  /\ pc' = [pc EXCEPT ![i] = "settled"]
  /\ attempt' = [attempt EXCEPT ![i] = 0]
  /\ lastError' = [lastError EXCEPT ![i] = NoError]
  /\ sleepMs' = [sleepMs EXCEPT ![i] = 0]

\* lines 364-367: the processor resolved; the item settles as succeeded
CallResolves(i) ==
  /\ pc[i] = "calling"
  /\ completed' = completed + 1
  /\ progressCalls' = [progressCalls EXCEPT ![i] =
        Append(@, [result |-> ResultOf(i), error |-> NoError])]
  /\ progressCompleted' = Append(progressCompleted, completed + 1)
  /\ results' = [results EXCEPT ![i] =
        [item |-> i, result |-> ResultOf(i), error |-> NoError]]
  /\ activeCount' = Release(activeCount, FALSE)
  /\ pc' = [pc EXCEPT ![i] = "settled"]
  /\ attempt' = [attempt EXCEPT ![i] = 0]
  /\ lastError' = [lastError EXCEPT ![i] = NoError]
  /\ sleepMs' = [sleepMs EXCEPT ![i] = 0]
  /\ UNCHANGED <<concurrency, maxRetries, total, queue, invocations, batch, returned>>

\* lines 368-391: the processor rejected with a value whose message is `message`;
\* `at` (the attempt that threw it) tells the thrown values of one item apart
CallRejects(i, message) ==
  /\ pc[i] = "calling"
  /\ LET thrown == [message |-> message, at |-> attempt[i]]
         error == AssignLastError(lastError[i], thrown) IN
     IF ~HasMessage(error)
     THEN \* line 373 raises inside the catch block: the item's function rejects,
          \* p-limit releases its slot, Promise.all rejects
          /\ activeCount' = Release(activeCount, TRUE)
          /\ pc' = [pc EXCEPT ![i] = "rejected"]
          /\ batch' = IF batch = "pending" THEN "rejected" ELSE batch
          /\ attempt' = [attempt EXCEPT ![i] = 0]
          /\ lastError' = [lastError EXCEPT ![i] = NoError]
          /\ sleepMs' = [sleepMs EXCEPT ![i] = 0]
          /\ UNCHANGED <<completed, progressCalls, progressCompleted,
                         results, invocations>>
     ELSE IF RetriesRemain(attempt[i])
     THEN \* lines 377-384: back off, then retry
          /\ lastError' = [lastError EXCEPT ![i] = error]
          /\ sleepMs' = [sleepMs EXCEPT ![i] = Backoff(error, attempt[i])]
          /\ pc' = [pc EXCEPT ![i] = "sleeping"]
          /\ UNCHANGED <<attempt, completed, progressCalls, progressCompleted,
                         results, activeCount, batch, invocations>>
     ELSE IF LoopContinues(attempt[i] + 1)
     THEN \* no sleep: attempt++, line 362 holds, line 364 calls the processor again
          /\ lastError' = [lastError EXCEPT ![i] = error]
          /\ attempt' = [attempt EXCEPT ![i] = @ + 1]
          /\ invocations' = [invocations EXCEPT ![i] = @ + 1]
          /\ UNCHANGED <<pc, sleepMs, completed, progressCalls, progressCompleted,
                         results, activeCount, batch>>
     ELSE \* attempt++, line 362 fails; lines 388-391: all retries failed
          /\ Exhausted(i, error)
          /\ UNCHANGED <<batch, invocations>>
  /\ UNCHANGED <<concurrency, maxRetries, total, queue, returned>>

\* lines 380/383 then 362-364: the sleep ended, attempt++, the loop condition is
\* tested and the processor is called again
SleepEnds(i) ==
  /\ pc[i] = "sleeping"
  /\ LET att == attempt[i] + 1 IN
     IF LoopContinues(att)
     THEN /\ attempt' = [attempt EXCEPT ![i] = att]
          /\ invocations' = [invocations EXCEPT ![i] = @ + 1]
          /\ pc' = [pc EXCEPT ![i] = "calling"]
          /\ UNCHANGED <<activeCount, lastError, sleepMs, completed, progressCalls,
                         progressCompleted, results>>
     ELSE /\ Exhausted(i, lastError[i])
          /\ UNCHANGED invocations
  /\ UNCHANGED <<concurrency, maxRetries, total, queue, batch, returned>>

CollectSuccessful ==
  LET ok == {k \in 1..total : results[k].result # Null}
      F[n \in 0..total] ==
        IF n = 0 THEN <<>>
        ELSE IF n \in ok THEN Append(F[n - 1], results[n]) ELSE F[n - 1]
  IN F[total]

\* the entries in the order in which the items completed
CollectInCompletionOrder == [k \in 1..total |-> results[progressItems[k]]]

\* lines 357-358, 396: Promise.all yields one entry per item, in the order of items.map
CollectResults == [k \in 1..total |-> results[k]]

\* lines 357, 396: Promise.all resolved, the array is returned
PromiseAllResolves ==
  /\ batch = "pending"
  /\ \A i \in 1..total : pc[i] = "settled"
  /\ batch' = "resolved"
  /\ returned' = CollectResults
  /\ UNCHANGED <<concurrency, maxRetries, total, queue, activeCount, pc, attempt,
                 lastError, sleepMs, invocations, completed, progressCalls,
                 progressCompleted, results>>

----------------------------------------------------------------------------
(* utils/jsonExtractor.ts                                                  *)
(* A text is a sequence of tokens: the characters the extractor looks at   *)
(* ({ } [ ] " \ : , blank, newline), the code fence, and maximal runs of    *)
(* other characters (words, number literals, true / false / null).         *)

\* the three backquotes that open and close a markdown code fence
FENCE == "<fence>"

\* the \s of the regular expressions and of trim(), and the white space
IsWs(tok) == tok \in {" ", "\n"}

\* number literals of the texts, with their value in tenths
NumberTokens == {"0", "0.3", "0.9", "1", "7"}

NumTenths(tok) ==
  CASE tok = "0" -> 0 [] tok = "0.3" -> 3 [] tok = "0.9" -> 9 [] tok = "1" -> 10
    [] tok = "7" -> 70

LiteralTokens == {"true", "false", "null"}

\* a maximal run of letters or digits: two of them are never adjacent in a text
IsRun(tok) == tok \notin {"{", "}", "[", "]", "\"", "\\", ":", ",", " ", "\n", FENCE}

IsTokenization(text) ==
  \A k \in 1..(Len(text) - 1) : ~(IsRun(text[k]) /\ IsRun(text[k + 1]))

\* a JSON value: t is its type, s the source tokens of a string, number or
\* literal, items the elements of an array, members the properties of an object
JValue(t, s, items, members) == [t |-> t, s |-> s, items |-> items, members |-> members]

Undefined == JValue("undefined", <<>>, <<>>, {})

EmptyObject == JValue("object", <<>>, <<>>, {})

JString(s) == JValue("string", s, <<>>, {})

\* a parse that failed (JSON.parse throws)
ParseFail == [ok |-> FALSE, val |-> Undefined, next |-> 0]

RECURSIVE SkipWs(_, _)
SkipWs(toks, i) ==
  IF i <= Len(toks) /\ IsWs(toks[i]) THEN SkipWs(toks, i + 1) ELSE i

\* after a backslash JSON allows " \ / b f n r t u: of the tokens, those that
\* start with one of these characters
EscapeOK(tok) == tok \in {"\"", "\\", "true", "false", "null"}

\* the characters of a string literal from position j up to its closing quote
RECURSIVE ScanString(_, _, _)
ScanString(toks, j, acc) ==
  IF j > Len(toks) THEN ParseFail
  ELSE IF toks[j] = "\"" THEN [ok |-> TRUE, val |-> JString(acc), next |-> j + 1]
  ELSE IF toks[j] = "\\"
       THEN IF j + 1 <= Len(toks) /\ EscapeOK(toks[j + 1])
            THEN ScanString(toks, j + 2, acc \o <<"\\", toks[j + 1]>>)
            ELSE ParseFail
  ELSE IF toks[j] = "\n" THEN ParseFail
  ELSE ScanString(toks, j + 1, Append(acc, toks[j]))

\* obj[key] = val: a repeated key keeps the last value
SetMember(members, key, val) ==
  {m \in members : m.k # key} \cup {[k |-> key, v |-> val]}

RECURSIVE ParseValue(_, _), ParseMember(_, _, _), ParseItem(_, _, _)

\* JSON.parse's value at position i (white space skipped)
ParseValue(toks, i) ==
  LET j == SkipWs(toks, i) IN
  IF j > Len(toks) THEN ParseFail
  ELSE LET tok == toks[j] IN
       CASE tok = "\"" -> ScanString(toks, j + 1, <<>>)
         [] tok \in NumberTokens ->
              [ok |-> TRUE, val |-> JValue("number", <<tok>>, <<>>, {}), next |-> j + 1]
         [] tok \in {"true", "false"} ->
              [ok |-> TRUE, val |-> JValue("boolean", <<tok>>, <<>>, {}), next |-> j + 1]
         [] tok = "null" ->
              [ok |-> TRUE, val |-> JValue("null", <<tok>>, <<>>, {}), next |-> j + 1]
         [] tok = "{" ->
              LET k == SkipWs(toks, j + 1) IN
              IF k <= Len(toks) /\ toks[k] = "}"
              THEN [ok |-> TRUE, val |-> EmptyObject, next |-> k + 1]
              ELSE ParseMember(toks, k, {})
         [] tok = "[" ->
              LET k == SkipWs(toks, j + 1) IN
              IF k <= Len(toks) /\ toks[k] = "]"
              THEN [ok |-> TRUE, val |-> JValue("array", <<>>, <<>>, {}), next |-> k + 1]
              ELSE ParseItem(toks, k, <<>>)
         [] OTHER -> ParseFail

\* "key" : value, followed by , and the next member or by }
ParseMember(toks, i, acc) ==
  IF i > Len(toks) \/ toks[i] # "\"" THEN ParseFail
  ELSE LET key == ScanString(toks, i + 1, <<>>) IN
       IF ~key.ok THEN ParseFail
       ELSE LET c == SkipWs(toks, key.next) IN
            IF c > Len(toks) \/ toks[c] # ":" THEN ParseFail
            ELSE LET v == ParseValue(toks, c + 1) IN
                 IF ~v.ok THEN ParseFail
                 ELSE LET e == SkipWs(toks, v.next)
                          members == SetMember(acc, key.val.s, v.val) IN
                      IF e > Len(toks) THEN ParseFail
                      ELSE IF toks[e] = "}"
                           THEN [ok |-> TRUE,
                                 val |-> JValue("object", <<>>, <<>>, members),
                                 next |-> e + 1]
                      ELSE IF toks[e] = ","
                           THEN ParseMember(toks, SkipWs(toks, e + 1), members)
                      ELSE ParseFail

\* value, followed by , and the next element or by ]
ParseItem(toks, i, acc) ==
  LET v == ParseValue(toks, i) IN
  IF ~v.ok THEN ParseFail
  ELSE LET e == SkipWs(toks, v.next)
           items == Append(acc, v.val) IN
       IF e > Len(toks) THEN ParseFail
       ELSE IF toks[e] = "]"
            THEN [ok |-> TRUE, val |-> JValue("array", <<>>, items, {}), next |-> e + 1]
       ELSE IF toks[e] = "," THEN ParseItem(toks, e + 1, items)
       ELSE ParseFail

\* JSON.parse(text): one value, white space around it, nothing else
JSONParse(toks) ==
  LET v == ParseValue(toks, 1) IN
  IF v.ok /\ SkipWs(toks, v.next) > Len(toks) THEN v ELSE ParseFail

\* String.prototype.trim
RECURSIVE TrimEnd(_)
TrimEnd(text) ==
  IF text # <<>> /\ IsWs(text[Len(text)])
  THEN TrimEnd(SubSeq(text, 1, Len(text) - 1))
  ELSE text

Trim(text) ==
  LET first == SkipWs(text, 1) IN TrimEnd(SubSeq(text, first, Len(text)))

\* the language tag a fence pattern accepts: (?:json|javascript|js)?
FenceTags == {"json", "javascript", "js"}

\* lines 26-37: the text with its code fence removed. Both patterns ask for an
\* opening fence at the very start and a closing fence at the very end; the
\* first also skips a language tag; white space inside the fences is trimmed.
StripFence(cleaned) ==
  IF /\ Len(cleaned) >= 2
     /\ cleaned[1] = FENCE
     /\ cleaned[Len(cleaned)] = FENCE
  THEN LET afterTag == IF Len(cleaned) >= 3 /\ cleaned[2] \in FenceTags THEN 3 ELSE 2
       IN Trim(SubSeq(cleaned, afterTag, Len(cleaned) - 1))
  ELSE cleaned

\* text.indexOf(tok, from): 0 if there is none
RECURSIVE IndexOf(_, _, _)
IndexOf(text, tok, from) ==
  IF from > Len(text) THEN 0
  ELSE IF text[from] = tok THEN from
  ELSE IndexOf(text, tok, from + 1)

\* text.lastIndexOf(tok): 0 if there is none
RECURSIVE LastIndexOf(_, _, _)
LastIndexOf(text, tok, from) ==
  IF from < 1 THEN 0
  ELSE IF text[from] = tok THEN from
  ELSE LastIndexOf(text, tok, from - 1)

\* no match (findJSONObject / extractJSONFromText return null)
NoMatch == [found |-> FALSE, text |-> <<>>]

Match(text) == [found |-> TRUE, text |-> text]

\* lines 80-107: the loop of findJSONObject from position i
RECURSIVE ScanDepth(_, _, _, _, _, _)
ScanDepth(text, start, i, depth, inString, escape) ==
  IF i > Len(text) THEN NoMatch
  ELSE LET char == text[i] IN
       IF escape THEN ScanDepth(text, start, i + 1, depth, inString, FALSE)
       ELSE IF char = "\\" /\ inString
            THEN ScanDepth(text, start, i + 1, depth, inString, TRUE)
       ELSE IF char = "\"" THEN ScanDepth(text, start, i + 1, depth, ~inString, FALSE)
       ELSE IF ~inString /\ char = "{"
            THEN ScanDepth(text, start, i + 1, depth + 1, inString, FALSE)
       ELSE IF ~inString /\ char = "}"
            THEN IF depth - 1 = 0 THEN Match(SubSeq(text, start, i))
                 ELSE ScanDepth(text, start, i + 1, depth - 1, inString, FALSE)
       ELSE ScanDepth(text, start, i + 1, depth, inString, FALSE)

findJSONObjectToLastBrace(text) ==
  LET start == IndexOf(text, "{", 1)
      end == LastIndexOf(text, "}", Len(text)) IN
  IF start = 0 \/ end < start THEN NoMatch ELSE Match(SubSeq(text, start, end))

findJSONObjectToFirstBrace(text) ==
  LET start == IndexOf(text, "{", 1)
      end == IF start = 0 THEN 0 ELSE IndexOf(text, "}", start) IN
  IF start = 0 \/ end = 0 THEN NoMatch ELSE Match(SubSeq(text, start, end))

\* lines 72-110
findJSONObject(text) ==
  LET start == IndexOf(text, "{", 1) IN
  IF start = 0 THEN NoMatch ELSE ScanDepth(text, start, start, 0, FALSE, FALSE)

\* the words of pattern 1, (?:json|result|response|output|data) under /i
LabelWords == {"json", "JSON", "result", "response", "output", "data"}

\* \s*[:=]?\s* from position i: the position after it
AfterSeparator(text, i) ==
  LET j == SkipWs(text, i) IN
  IF j <= Len(text) /\ text[j] = ":" THEN SkipWs(text, j + 1) ELSE j

\* pattern 1 tried at the label at position i: the position of the { it captures
\* from, 0 if the label is not followed by one that has a } after it
LabelledBrace(text, i) ==
  LET j == AfterSeparator(text, i + 1) IN
  IF /\ text[i] \in LabelWords
     /\ j <= Len(text) /\ text[j] = "{"
     /\ LastIndexOf(text, "}", Len(text)) > j
  THEN j ELSE 0

\* line 117: the leftmost match of pattern 1
Pattern1(text) ==
  LET hits == {i \in 1..Len(text) : LabelledBrace(text, i) # 0} IN
  IF hits = {} THEN NoMatch
  ELSE LET i == CHOOSE h \in hits : \A g \in hits : h <= g IN
       Match(SubSeq(text, LabelledBrace(text, i), LastIndexOf(text, "}", Len(text))))

\* the quoted word "w" (three tokens) starts at position i
QuotedAt(text, i, words) ==
  /\ i + 2 <= Len(text)
  /\ text[i] = "\"" /\ text[i + 1] \in words /\ text[i + 2] = "\""

\* line 118: { ... "summary" ... "confidence" ... } under /i, from the first {
\* that has them after it to the last }
Pattern2(text) ==
  LET start == IndexOf(text, "{", 1)
      end == LastIndexOf(text, "}", Len(text)) IN
  IF /\ start # 0
     /\ \E a, b \in (start + 1)..Len(text) :
          /\ QuotedAt(text, a, {"summary", "SUMMARY"})
          /\ a + 3 <= b
          /\ QuotedAt(text, b, {"confidence", "CONFIDENCE"})
          /\ b + 3 <= end
  THEN Match(SubSeq(text, start, end))
  ELSE NoMatch

\* line 119: from the first { to a } that only white space follows
Pattern3(text) ==
  LET start == IndexOf(text, "{", 1)
      trimmed == TrimEnd(text) IN
  IF /\ start # 0
     /\ trimmed # <<>> /\ trimmed[Len(trimmed)] = "}"
     /\ start < Len(trimmed)
  THEN Match(SubSeq(text, start, Len(trimmed)))
  ELSE NoMatch

\* lines 115-135: the capture of the first pattern that matches
extractJSONFromText(text) ==
  IF Pattern1(text).found THEN Match(Trim(Pattern1(text).text))
  ELSE IF Pattern2(text).found THEN Match(Trim(Pattern2(text).text))
  ELSE IF Pattern3(text).found THEN Match(Trim(Pattern3(text).text))
  ELSE NoMatch

\* lines 17-67
extractJSON(text) ==
  IF text = <<>> THEN ParseFail
  ELSE LET cleaned == StripFence(Trim(text))
           direct == JSONParse(cleaned)
           jsonMatch == findJSONObject(cleaned)
           jsonInText == extractJSONFromText(cleaned) IN
       IF direct.ok THEN direct
       ELSE IF jsonMatch.found /\ JSONParse(jsonMatch.text).ok
            THEN JSONParse(jsonMatch.text)
       ELSE IF jsonInText.found THEN JSONParse(jsonInText.text)
       ELSE ParseFail

\* obj[key]: undefined if the value has no such property
GetMember(val, key) ==
  IF \E m \in val.members : m.k = key
  THEN (CHOOSE m \in val.members : m.k = key).v
  ELSE Undefined

\* the truthiness of a value: undefined, null, false, 0 and "" are falsy
Truthy(val) ==
  CASE val.t \in {"undefined", "null"} -> FALSE
    [] val.t = "boolean" -> val.s = <<"true">>
    [] val.t = "number" -> NumTenths(val.s[1]) # 0
    [] val.t = "string" -> val.s # <<>>
    [] OTHER -> TRUE

\* String(val): the tokens of the resulting string
RECURSIVE StringOf(_), Join(_, _)
StringOf(val) ==
  CASE val.t \in {"string", "number", "boolean"} -> val.s
    [] val.t = "null" -> <<"null">>
    [] val.t = "undefined" -> <<"undefined">>
    [] val.t = "array" -> Join(val.items, 1)
    [] OTHER -> <<"[object Object]">>

\* Array.prototype.join: null and undefined elements give the empty string
Join(items, k) ==
  IF k > Len(items) THEN <<>>
  ELSE (IF items[k].t \in {"null", "undefined"} THEN <<>> ELSE StringOf(items[k]))
       \o (IF k < Len(items) THEN <<",">> ELSE <<>>)
       \o Join(items, k + 1)

\* extraction found no JSON (extractResearchResult returns null)
NullExtract ==
  [summary |-> <<"<null>">>, details |-> Undefined, sources |-> Undefined,
   confidence |-> -1]

\* lines 4-9: ResearchResultSchema.safeParse(val).success
SchemaAccepts(val) ==
  LET summary == GetMember(val, <<"summary">>)
      details == GetMember(val, <<"details">>)
      sources == GetMember(val, <<"sources">>)
      confidence == GetMember(val, <<"confidence">>) IN
  /\ val.t = "object"
  /\ summary.t = "string" /\ Len(summary.s) >= 1
  /\ details.t \in {"undefined", "object"}
  /\ \/ sources.t = "undefined"
     \/ /\ sources.t = "array"
        /\ \A k \in 1..Len(sources.items) : sources.items[k].t = "string"
  /\ \/ confidence.t = "undefined"
     \/ /\ confidence.t = "number"
        /\ NumTenths(confidence.s[1]) >= 0
        /\ NumTenths(confidence.s[1]) <= 10

\* lines 4-9: result.data, with the defaults filled in; confidence is in tenths
SchemaData(val) ==
  LET details == GetMember(val, <<"details">>)
      confidence == GetMember(val, <<"confidence">>) IN
  [summary |-> GetMember(val, <<"summary">>).s,
   details |-> IF details.t = "undefined" THEN EmptyObject ELSE details,
   sources |-> GetMember(val, <<"sources">>),
   confidence |-> IF confidence.t = "undefined" THEN 5 ELSE NumTenths(confidence.s[1])]

\* lines 152-157: the partial data kept from a value the schema rejected
Salvage(extracted) ==
  LET summary == GetMember(extracted, <<"summary">>)
      details == GetMember(extracted, <<"details">>)
      sources == GetMember(extracted, <<"sources">>)
      confidence == GetMember(extracted, <<"confidence">>) IN
  [summary |-> IF Truthy(summary) THEN StringOf(summary)
               ELSE <<"Research completed but output was malformed">>,
   details |-> IF Truthy(details) THEN details ELSE EmptyObject,
   sources |-> IF sources.t = "array"
               THEN JValue("array", <<>>,
                           [k \in 1..Len(sources.items) |->
                              JString(StringOf(sources.items[k]))], {})
               ELSE Undefined,
   confidence |-> IF confidence.t = "number" THEN NumTenths(confidence.s[1]) ELSE 3]

\* lines 147-160: the result for what extractJSON returned
ValidateOrSalvage(extracted) ==
  IF ~extracted.ok \/ ~Truthy(extracted.val) THEN NullExtract
  ELSE IF SchemaAccepts(extracted.val) THEN SchemaData(extracted.val)
  ELSE Salvage(extracted.val)

\* lines 140-161; extractJSON is called once, line 141
extractResearchResult(text) ==
  CHOOSE result \in {ValidateOrSalvage(extracted) : extracted \in {extractJSON(text)}} :
    TRUE

T_VALID ==
  <<"{", "\"", "summary", "\"", ":", "\"", "ok", "\"", ",",
    "\"", "confidence", "\"", ":", "0.9", "}">>

T_SALVAGE ==
  <<"{", "\"", "summary", "\"", ":", "\"", "ok", "\"", ",",
    "\"", "confidence", "\"", ":", "\"", "high", "\"", "}">>

T_PROSE == <<"I", " ", "could", " ", "not", " ", "find", " ", "anything.">>

T_EMPTY == <<>>

\* Response texts a provider may return.
Texts == {T_VALID, T_SALVAGE, T_PROSE, T_EMPTY}

\* {"a":1}
O_SIMPLE == <<"{", "\"", "a", "\"", ":", "1", "}">>

\* {"a":{"b":"}\""}}: a nested object whose string holds a brace and a quote
O_NESTED ==
  <<"{", "\"", "a", "\"", ":", "{", "\"", "b", "\"", ":",
    "\"", "}", "\\", "\"", "\"", "}", "}">>

\* {}
O_EMPTY == <<"{", "}">>

\* Well-formed JSON objects a inputText may embed.
Objects == {O_SIMPLE, O_NESTED, O_EMPTY, T_VALID}

\* tokens of the inputText in front of an embedded object
PrefixTokens == {"Here", " ", "json", ":", "{", "[", "\"", FENCE}

\* tokens of the inputText behind an embedded object
SuffixTokens == {"Thanks", " ", "}", "]", "\"", FENCE}

\* tokens of a inputText that embeds no object
FreeTokens ==
  {"x", " ", "{", "}", "[", "]", "\"", "\\", ":", ",", "7", "0", "true", "json", FENCE}

SeqsUpTo(S, n) == UNION {[1..k -> S] : k \in 0..n}

\* "key": value
MemberText(key, value) == <<"\"", key, "\"", ":">> \o value

\* the members that are present (a member left out is <<>>), separated by commas
RECURSIVE MembersText(_, _)
MembersText(members, k) ==
  IF k > Len(members) THEN <<>>
  ELSE IF members[k] = <<>> THEN MembersText(members, k + 1)
  ELSE members[k]
       \o (IF \E j \in (k + 1)..Len(members) : members[j] # <<>> THEN <<",">> ELSE <<>>)
       \o MembersText(members, k + 1)

\* values a model may put under each key of its answer; <<>>: the key is left out
SummaryValues ==
  {<<>>, <<"\"", "ok", "\"">>, <<"\"", "\"">>, <<"[", "]">>, <<"7">>, <<"null">>}

DetailsValues ==
  {<<>>, <<"{", "}">>, <<"{", "\"", "a", "\"", ":", "1", "}">>, <<"\"", "x", "\"">>,
   <<"[", "7", "]">>, <<"7">>, <<"null">>}

SourcesValues ==
  {<<>>, <<"[", "\"", "a", "\"", "]">>, <<"[", "7", ",", "null", "]">>, <<"\"", "x", "\"">>}

ConfidenceValues == {<<>>, <<"0.9">>, <<"7">>, <<"\"", "high", "\"">>}

\* Answers that are one JSON object with some of the four keys of a result.
Answers ==
  {<<"{">> \o MembersText(<<IF s = <<>> THEN s ELSE MemberText("summary", s),
                            IF d = <<>> THEN d ELSE MemberText("details", d),
                            IF r = <<>> THEN r ELSE MemberText("sources", r),
                            IF c = <<>> THEN c ELSE MemberText("confidence", c)>>, 1)
         \o <<"}">> :
     s \in SummaryValues, d \in DetailsValues, r \in SourcesValues,
     c \in ConfidenceValues}

\* The input of one extractor call: an object between a prefix and a suffix, a
\* text of up to MaxTextLen tokens, or an answer that is one object.
EXInit ==
  /\ exPc = "input"
  /\ \/ /\ embedded \in Objects
        /\ before \in SeqsUpTo(PrefixTokens, MaxPrefix)
        /\ \E after \in SeqsUpTo(SuffixTokens, MaxSuffix) :
              inputText = before \o embedded \o after
     \/ /\ embedded = <<>>
        /\ before = <<>>
        /\ inputText \in SeqsUpTo(FreeTokens, MaxTextLen)
     \/ /\ embedded \in Answers
        /\ before = <<>>
        /\ inputText = embedded
  /\ IsTokenization(inputText)
  /\ extractedJson = ParseFail
  /\ extractedResearch = NullExtract

\* extractJSON and extractResearchResult are called on the text
Extract ==
  /\ exPc = "input"
  /\ exPc' = "done"
  /\ extractedJson' = extractJSON(inputText)
  /\ extractedResearch' = extractResearchResult(inputText)
  /\ UNCHANGED <<inputText, before, embedded>>
  /\ UNCHANGED <<rlVars, rcVars, rwVars, mrVars, srVars, stVars, wsVars>>

----------------------------------------------------------------------------
(* clients/llmOrchestrator.ts *)

NoOrch == [content |-> <<"<none>">>, provider |-> "<none>", fallbackUsed |-> FALSE]

NoLlmError == [openrouter |-> "<none>", gemini |-> "<none>"]

NoOutcome == [kind |-> "<running>", result |-> NullExtract, provider |-> "<none>",
              attempts |-> 0, error |-> NoLlmError]

\* Messages of the errors a provider call may throw.
ProviderErrors == {"Request failed with status code 500", "fetch failed"}

\* line 195: the message withTimeout rejects with
TimeoutMessage == "OpenRouter timeout"

\* lines 199-203
PrimaryResult(content) ==
  [content |-> content, provider |-> "openrouter", fallbackUsed |-> FALSE]

FallbackResultAsPrimary(content) ==
  [content |-> content, provider |-> "openrouter", fallbackUsed |-> FALSE]

\* lines 211-215
FallbackResult(content) ==
  [content |-> content, provider |-> "gemini", fallbackUsed |-> TRUE]

\* line 218: the Error naming both providers' messages
AllProvidersFailed(openrouterMessage, geminiMessage) ==
  [openrouter |-> openrouterMessage, gemini |-> geminiMessage]

IsExtractedNegated(extracted) == extracted = NullExtract

\* line 307: if (extracted)
IsExtracted(extracted) == extracted # NullExtract

WhileContinuesOneMore(att) == att < MAX_REPAIR_ATTEMPTS + 2

\* line 288: attempts < MAX_REPAIR_ATTEMPTS + 1
WhileContinues(att) == att < MAX_REPAIR_ATTEMPTS + 1

DegradedResultSalvageConfidence ==
  [summary |-> <<"Research could not be completed due to processing errors.">>,
   details |-> EmptyObject, sources |-> Undefined, confidence |-> 3]

\* lines 321-325; confidence is in tenths
DegradedResult ==
  [summary |-> <<"Research could not be completed due to processing errors.">>,
   details |-> EmptyObject, sources |-> Undefined, confidence |-> 1]

\* part_004 line 169: malformedResponse.slice(0, 500) and `.length > 500`
REPAIR_COPY_CHARS == 500

\* a single backquote, which a slice that cuts through a code fence leaves behind
BACKQUOTE == "<backquote>"

\* String.length of the characters one token stands for
CharsOf(tok) == IF tok = FENCE THEN 3 ELSE IF tok = BACKQUOTE THEN 1 ELSE Len(tok)

RECURSIVE TextLength(_, _)

\* String.length of the tokens of text from the k-th on
TextLength(text, k) ==
  IF k > Len(text) THEN 0 ELSE CharsOf(text[k]) + TextLength(text, k + 1)

\* the first n characters of one token that is longer than n
SliceToken(tok, n) ==
  IF tok = FENCE THEN [k \in 1..n |-> BACKQUOTE] ELSE <<SubSeq(tok, 1, n)>>

RECURSIVE SliceFrom(_, _, _)

\* the first n characters of text from its k-th token on: String.slice(0, n)
SliceFrom(text, k, n) ==
  IF k > Len(text) \/ n <= 0 THEN <<>>
  ELSE IF CharsOf(text[k]) <= n
       THEN <<text[k]>> \o SliceFrom(text, k + 1, n - CharsOf(text[k]))
  ELSE SliceToken(text[k], n)

\* part_004 line 169: the '...' that follows a response that was cut
CutMarker(malformedResponse) ==
  IF TextLength(malformedResponse, 1) > REPAIR_COPY_CHARS THEN <<"...">> ELSE <<>>

RepairHeader ==
  <<"The previous response was not valid JSON. Here was the malformed response:",
    "\n", "\n">>

RepairRequest ==
  <<"\n", "\n", "Please provide ONLY a valid JSON object with no additional text.",
    "\n", "Original request: ">>

RepairReminder ==
  <<"\n", "\n", "Remember: Output ONLY the JSON object, nothing else.">>

\* part_004 lines 166-175
createRepairPrompt(originalPrompt, malformedResponse) ==
  RepairHeader \o SliceFrom(malformedResponse, 1, REPAIR_COPY_CHARS)
    \o CutMarker(malformedResponse) \o RepairRequest \o originalPrompt
    \o RepairReminder

\* part_001 lines 300-301: one createRepairPrompt(query, lastResponse) call and
\* the prompt geminiSimpleCompletion is given
RepairCall(originalPrompt, malformedResponse) ==
  [originalPrompt |-> originalPrompt, malformedResponse |-> malformedResponse,
   prompt |-> createRepairPrompt(originalPrompt, malformedResponse)]

\* The queries researchCompletion is called with.
Queries == {<<"Who", " ", "founded", " ", "it?">>, <<"Revenue", " ", "in", " ", "2023">>}

\* one hundred letters
LONG_WORD ==
  "aaaaaaaaaaaaaaaaaaaaaaaaaaaaaaaaaaaaaaaaaaaaaaaaaaaaaaaaaaaaaaaaaaaaaaaaaaaaaaaaaaaaaaaaaaaaaaaaaaaa"

\* A prose answer of n characters, n from 405 to 504: four words of a hundred
\* letters, a blank after each, and a last word.
LongProse(n) ==
  <<LONG_WORD, " ", LONG_WORD, " ", LONG_WORD, " ", LONG_WORD, " ",
    SubSeq(LONG_WORD, 1, n - 404)>>

\* Answers around the 500 characters a repair prompt copies: shorter by one,
\* exactly as long, longer by one (the cut falls inside the last word), and
\* longer by two words (the cut falls between two tokens).
LongTexts ==
  {LongProse(REPAIR_COPY_CHARS - 1), LongProse(REPAIR_COPY_CHARS),
   LongProse(REPAIR_COPY_CHARS + 1),
   LongProse(REPAIR_COPY_CHARS) \o <<" ", "and", " ", "more">>}

\* Response texts a provider may return to a research call.
Responses == Texts \cup LongTexts

RCIdle ==
  /\ rcPc = "init"
  /\ attempts = 0
  /\ lastResponse = <<>>
  /\ lastProvider = "openrouter"
  /\ orch = NoOrch
  /\ llmError = NoLlmError
  /\ primaryError = ""
  /\ primaryPending = FALSE
  /\ timerPending = FALSE
  /\ callLog = <<>>
  /\ repairArgs = <<>>
  /\ query \in Queries
  /\ responses = <<>>
  /\ outcome = NoOutcome

\* no research call is made at all
RCUnused ==
  /\ rcPc = <<>> /\ attempts = <<>> /\ lastResponse = <<>> /\ lastProvider = <<>>
  /\ orch = <<>> /\ llmError = <<>> /\ primaryError = <<>> /\ primaryPending = <<>>
  /\ timerPending = <<>> /\ callLog = <<>> /\ repairArgs = <<>> /\ responses = <<>>
  /\ outcome = <<>> /\ query = <<>>

\* the extractor is not called on its own
EXUnused ==
  /\ exPc = <<>> /\ inputText = <<>> /\ before = <<>> /\ embedded = <<>>
  /\ extractedJson = <<>> /\ extractedResearch = <<>>

\* the rate limiter is not in use
RLIdle ==
  /\ concurrency = DEFAULT_CONCURRENCY
  /\ maxRetries = MAX_RETRIES
  /\ total = 0
  /\ queue = <<>>
  /\ activeCount = 0
  /\ pc = [i \in Items |-> "absent"]
  /\ attempt = [i \in Items |-> 0]
  /\ lastError = [i \in Items |-> NoError]
  /\ sleepMs = [i \in Items |-> 0]
  /\ invocations = [i \in Items |-> 0]
  /\ completed = 0
  /\ progressCalls = [i \in Items |-> <<>>]
  /\ progressCompleted = <<>>
  /\ progressItems = <<>>
  /\ results = [i \in Items |-> NoResult]
  /\ batch = "pending"
  /\ returned = <<>>

\* lines 288-316: the end of one loop iteration that returned nothing (extraction
\* failed, or the catch at line 313 swallowed an error), with the values
\* lastResponse / lastProvider have at that point: the next iteration issues a
\* repair call, or the loop ends and lines 318-328 return the degraded result
NextIteration(response, provider) ==
  IF WhileContinues(attempts)
  THEN /\ attempts' = attempts + 1
       /\ repairArgs' = Append(repairArgs, RepairCall(query, response))
       /\ callLog' = Append(callLog, "geminiSimpleCompletion")
       /\ rcPc' = "repair"
       /\ UNCHANGED outcome
  ELSE /\ outcome' = [kind |-> "returned", result |-> DegradedResult,
                      provider |-> provider, attempts |-> attempts,
                      error |-> NoLlmError]
       /\ rcPc' = "done"
       /\ UNCHANGED <<attempts, repairArgs, callLog>>

\* lines 295-296 / 301-302, then 306-312: a response text arrived
HandleResponse(call, content, provider) ==
  /\ lastResponse' = content
  /\ lastProvider' = provider
  /\ responses' = Append(responses, [call |-> call, content |-> content])
  /\ \E extracted \in {extractResearchResult(content)} :
       IF IsExtracted(extracted)
       THEN /\ outcome' = [kind |-> "returned", result |-> extracted,
                           provider |-> provider, attempts |-> attempts,
                           error |-> NoLlmError]
            /\ rcPc' = "done"
            /\ UNCHANGED <<attempts, repairArgs, callLog>>
       ELSE NextIteration(content, provider)

\* lines 283-294, 192-196: first iteration, llmCompletion calls openrouterCompletion
\* under withTimeout
RCStartCall ==
  /\ rcPc = "init"
  /\ attempts' = attempts + 1
  /\ callLog' = Append(callLog, "openrouterCompletion")
  /\ primaryPending' = TRUE
  /\ timerPending' = TRUE
  /\ rcPc' = "primary"
  /\ UNCHANGED <<lastResponse, lastProvider, orch, llmError, primaryError,
                 repairArgs, query, responses, outcome>>

\* researchCompletion called on its own
RCStart == RCStartCall /\ UNCHANGED <<rlVars, exVars, rwVars, mrVars, srVars, stVars, wsVars>>

\* lines 192-203, 294-296: openrouterCompletion resolved before the timer fired
PrimaryResponds(content) ==
  /\ rcPc = "primary"
  /\ primaryPending' = FALSE
  /\ orch' = PrimaryResult(content)
  /\ HandleResponse("openrouterCompletion", orch'.content, orch'.provider)
  /\ UNCHANGED <<llmError, primaryError, timerPending>>
  /\ UNCHANGED <<query, rlVars, exVars, rwVars, mrVars, srVars, stVars, wsVars>>

\* lines 204-209: openrouterCompletion rejected before the timer fired
PrimaryThrows(message) ==
  /\ rcPc = "primary"
  /\ primaryPending' = FALSE
  /\ primaryError' = message
  /\ callLog' = Append(callLog, "geminiCompletion")
  /\ rcPc' = "secondary"
  /\ UNCHANGED <<attempts, lastResponse, lastProvider, orch, llmError, timerPending,
                 repairArgs, responses, outcome>>
  /\ UNCHANGED <<query, rlVars, exVars, rwVars, mrVars, srVars, stVars, wsVars>>

\* lines 175-177, 204-209: the timer fired first; the primary call keeps running
TimeoutFires ==
  /\ rcPc = "primary"
  /\ timerPending' = FALSE
  /\ primaryError' = TimeoutMessage
  /\ callLog' = Append(callLog, "geminiCompletion")
  /\ rcPc' = "secondary"
  /\ UNCHANGED <<attempts, lastResponse, lastProvider, orch, llmError, primaryPending,
                 repairArgs, responses, outcome>>
  /\ UNCHANGED <<query, rlVars, exVars, rwVars, mrVars, srVars, stVars, wsVars>>

RaceTakesLate(settled, late) == late

\* lines 173-178: the promise of Promise.race settles once, with the first of
\* its inputs to settle; `settled` is what the awaiting code went on with,
\* `late` what the other input settles with afterwards
RaceSettlesOnce(settled, late) == settled

\* lines 173-178, 192-203: the primary call resolves after the race was decided
LatePrimaryResponds(content) ==
  /\ rcPc # "primary"
  /\ primaryPending
  /\ primaryPending' = FALSE
  /\ orch' = RaceSettlesOnce(orch, PrimaryResult(content))
  /\ UNCHANGED <<rcPc, attempts, lastResponse, lastProvider, llmError,
                 primaryError, timerPending, callLog, repairArgs, responses, outcome>>
  /\ UNCHANGED <<query, rlVars, exVars, rwVars, mrVars, srVars, stVars, wsVars>>

\* lines 173-178, 204-209: the primary call rejects after the race was decided
LatePrimaryThrows(message) ==
  /\ rcPc # "primary"
  /\ primaryPending
  /\ primaryPending' = FALSE
  /\ primaryError' = RaceSettlesOnce(primaryError, message)
  /\ UNCHANGED <<rcPc, attempts, lastResponse, lastProvider, orch, llmError,
                 timerPending, callLog, repairArgs, responses, outcome>>
  /\ UNCHANGED <<query, rlVars, exVars, rwVars, mrVars, srVars, stVars, wsVars>>

\* lines 175-177: the timer, never cleared, fires after the race was decided
LateTimerFires ==
  /\ rcPc # "primary"
  /\ timerPending
  /\ timerPending' = FALSE
  /\ UNCHANGED <<rcPc, attempts, lastResponse, lastProvider, orch, llmError,
                 primaryError, primaryPending, callLog, repairArgs, responses, outcome>>
  /\ UNCHANGED <<query, rlVars, exVars, rwVars, mrVars, srVars, stVars, wsVars>>

\* lines 209-215, 294-296: geminiCompletion resolved
SecondaryResponds(content) ==
  /\ rcPc = "secondary"
  /\ orch' = FallbackResult(content)
  /\ HandleResponse("geminiCompletion", orch'.content, orch'.provider)
  /\ UNCHANGED <<llmError, primaryError, primaryPending, timerPending>>
  /\ UNCHANGED <<query, rlVars, exVars, rwVars, mrVars, srVars, stVars, wsVars>>

\* lines 216-219, 313-315: geminiCompletion rejected; llmCompletion throws, the
\* catch of researchCompletion's loop logs the error and the loop goes on
SecondaryThrows(message) ==
  /\ rcPc = "secondary"
  /\ llmError' = AllProvidersFailed(primaryError, message)
  /\ NextIteration(lastResponse, lastProvider)
  /\ UNCHANGED <<lastResponse, lastProvider, orch, primaryError, primaryPending,
                 timerPending, responses>>
  /\ UNCHANGED <<query, rlVars, exVars, rwVars, mrVars, srVars, stVars, wsVars>>

\* lines 300-312: geminiSimpleCompletion resolved
RepairResponds(content) ==
  /\ rcPc = "repair"
  /\ HandleResponse("geminiSimpleCompletion", content, "gemini")
  /\ UNCHANGED <<orch, llmError, primaryError, primaryPending, timerPending>>
  /\ UNCHANGED <<query, rlVars, exVars, rwVars, mrVars, srVars, stVars, wsVars>>

\* lines 301, 313-315: geminiSimpleCompletion rejected; the catch logs the error
RepairThrows(message) ==
  /\ rcPc = "repair"
  /\ NextIteration(lastResponse, lastProvider)
  /\ UNCHANGED <<lastResponse, lastProvider, orch, llmError, primaryError,
                 primaryPending, timerPending, responses>>
  /\ UNCHANGED <<query, rlVars, exVars, rwVars, mrVars, srVars, stVars, wsVars>>

----------------------------------------------------------------------------
(* utils/mapReduce.ts *)

MAX_SUMMARY_WORDS == 200

AGGREGATION_CHUNK_SIZE == 5

\* two runs of pieces side by side: the last piece of the left one and the first
\* piece of the right one are one piece
MergePieces(left, right) ==
  SubSeq(left, 1, Len(left) - 1)
    \o <<left[Len(left)] \o right[1]>>
    \o SubSeq(right, 2, Len(right))

\* the pieces of text[k..hi] between its white-space tokens, each of them taken
\* as a separator of its own; word: the tokens of the piece that ends next
RECURSIVE SplitRun(_, _, _, _)
SplitRun(text, k, hi, word) ==
  IF k > hi THEN <<word>>
  ELSE IF IsWs(text[k]) THEN <<word>> \o SplitRun(text, k + 1, hi, <<>>)
  ELSE SplitRun(text, k + 1, hi, Append(word, text[k]))

\* the same for text[lo..hi] of any length: a long range is halved, which keeps
\* the nesting of the evaluation flat
RECURSIVE SplitAtWs(_, _, _)
SplitAtWs(text, lo, hi) ==
  IF hi - lo < 64 THEN SplitRun(text, lo, hi, <<>>)
  ELSE CHOOSE pieces \in
         {MergePieces(left, right) :
            left \in {SplitAtWs(text, lo, (lo + hi) \div 2)},
            right \in {SplitAtWs(text, (lo + hi) \div 2 + 1, hi)}} : TRUE

NonEmptyWord(word) == word # <<>>

\* a run of white space separates once: the empty pieces between the tokens of
\* a run go, the first and the last piece stay
DropInnerEmpty(pieces) ==
  IF Len(pieces) <= 2 THEN pieces
  ELSE <<pieces[1]>>
       \o SelectSeq(SubSeq(pieces, 2, Len(pieces) - 1), NonEmptyWord)
       \o <<pieces[Len(pieces)]>>

\* text.split(/\s+/): the maximal runs of tokens that are not white space,
\* with an empty first or last element when the text starts or ends with white space
SplitWords(text) ==
  CHOOSE words \in {DropInnerEmpty(pieces) : pieces \in {SplitAtWs(text, 1, Len(text))}} :
    TRUE

\* words[lo..hi] with sep between them
RECURSIVE JoinRange(_, _, _, _)
JoinRange(words, lo, hi, sep) ==
  IF lo > hi THEN <<>>
  ELSE IF lo = hi THEN words[lo]
  ELSE JoinRange(words, lo, (lo + hi) \div 2, sep)
       \o <<sep>>
       \o JoinRange(words, (lo + hi) \div 2 + 1, hi, sep)

\* words.join(sep) for the words from position k on
JoinWords(words, k, sep) == JoinRange(words, k, Len(words), sep)

\* lines 189-190 on the words of the text
TruncatedAt(text, words, maxWords) ==
  IF Len(words) <= maxWords THEN text
  ELSE Append(JoinWords(SubSeq(words, 1, maxWords), 1, " "), "...")

\* lines 187-191
truncateToWords(text, maxWords) ==
  CHOOSE truncated \in {TruncatedAt(text, words, maxWords) : words \in {SplitWords(text)}} :
    TRUE

\* line 204: findings.slice(0, 3).join('; ') from element k on
RECURSIVE JoinFindings(_, _)
JoinFindings(items, k) ==
  IF k > Len(items) THEN <<>>
  ELSE (IF items[k].t \in {"null", "undefined"} THEN <<>> ELSE StringOf(items[k]))
       \o (IF k < Len(items) THEN <<";", " ">> ELSE <<>>)
       \o JoinFindings(items, k + 1)

\* lines 199-206: the summary of the result, with up to 3 of its key_findings
SummaryAndFindings(result) ==
  LET findings == GetMember(result.details, <<"key_findings">>)
      first3 == SubSeq(findings.items, 1, IF Len(findings.items) < 3
                                          THEN Len(findings.items) ELSE 3)
  IN IF result.details.t \in {"object", "array"}
        /\ findings.t = "array" /\ Len(findings.items) > 0
     THEN result.summary \o <<" ", "Key", " ", "findings:", " ">>
          \o JoinFindings(first3, 1)
     ELSE result.summary

\* lines 197-210: the callback of results.map, for one result
SummarizeResult(result) ==
  CHOOSE summary \in {truncateToWords(text, MAX_SUMMARY_WORDS) :
                        text \in {SummaryAndFindings(result)}} : TRUE

\* lines 196-211
mapSummarize(extracted) ==
  CHOOSE summaries \in {[k \in 1..Len(given) |-> SummarizeResult(given[k])] :
                          given \in {extracted}} : TRUE

\* every summary, joined
ConcatenateAllSummaries(summaries) ==
  CHOOSE joined \in {JoinWords(given, 1, " ") : given \in {summaries}} : TRUE

\* line 270: summaries.slice(0, 3).join(' ')
ConcatenateSummaries(summaries) ==
  CHOOSE joined \in {JoinWords(SubSeq(given, 1, IF Len(given) < 3 THEN Len(given) ELSE 3),
                               1, " ") : given \in {summaries}} : TRUE

\* the aggregated text alone
VoiceTemplateWithoutCount(aggregatedSummary, entityCount) == aggregatedSummary

\* line 317: the template generateVoiceSummary falls back to
VoiceTemplate(aggregatedSummary, entityCount) ==
  <<"I've completed research on ", ToString(entityCount), " items. ">>
    \o aggregatedSummary

----------------------------------------------------------------------------
(* workers/researchWorker.ts and orchestrator.ts: one processRequest *)

\* How a provider call ends: it resolves with a text or it rejects.
ReplyValid == [ok |-> TRUE, content |-> T_VALID]

ReplyProse == [ok |-> TRUE, content |-> T_PROSE]

ReplyThrows == [ok |-> FALSE, content |-> <<>>]

\* How the two backends answer every call made for one row: both answer with a
\* valid result, Primary fails (an error or its timeout, which llmCompletion
\* catches alike) and Secondary answers, both answer with prose, both fail.
Envs ==
  {[primary |-> ReplyValid, secondary |-> ReplyValid],
   [primary |-> ReplyThrows, secondary |-> ReplyValid],
   [primary |-> ReplyProse, secondary |-> ReplyProse],
   [primary |-> ReplyThrows, secondary |-> ReplyThrows]}

\* part_001 lines 186-221: llmCompletion when the backends answer as in env, and
\* the provider calls it makes
llmCompletion(env) ==
  IF env.primary.ok
  THEN [ok |-> TRUE, orch |-> PrimaryResult(env.primary.content),
        calls |-> <<"openrouterCompletion">>]
  ELSE IF env.secondary.ok
       THEN [ok |-> TRUE, orch |-> FallbackResult(env.secondary.content),
             calls |-> <<"openrouterCompletion", "geminiCompletion">>]
  ELSE [ok |-> FALSE, orch |-> NoOrch,
        calls |-> <<"openrouterCompletion", "geminiCompletion">>]

\* part_001 lines 293-303: the provider call of attempt number `att`, the first
\* one settling as llmCompletion did
AttemptCall(env, att, first) ==
  IF att = 1
  THEN [ok |-> first.ok, content |-> first.orch.content,
        provider |-> first.orch.provider, calls |-> first.calls]
  ELSE [ok |-> env.secondary.ok, content |-> env.secondary.content,
        provider |-> "gemini", calls |-> <<"geminiSimpleCompletion">>]

RECURSIVE ResearchLoop(_, _, _, _, _)

\* part_001 lines 306-312: attempt `att` got the text of `call` and extraction
\* gave `extracted`; `calls` are the provider calls made so far
AttemptExtracted(env, att, call, extracted, calls) ==
  IF IsExtracted(extracted)
  THEN [result |-> extracted, provider |-> call.provider, attempts |-> att,
        calls |-> calls]
  ELSE ResearchLoop(env, att, call.content, call.provider, calls)

\* part_001 lines 291-315: the call of attempt `att` settled; one that throws
\* leaves lastResponse and lastProvider as they were
AttemptSettles(env, att, response, provider, call, calls) ==
  IF call.ok
  THEN AttemptExtracted(env, att, call, extractResearchResult(call.content),
                        calls \o call.calls)
  ELSE ResearchLoop(env, att, response, provider, calls \o call.calls)

\* part_001 lines 288-328: the loop of researchCompletion from its test on, with
\* `att` attempts made so far
ResearchLoop(env, att, response, provider, calls) ==
  IF ~WhileContinues(att)
  THEN [result |-> DegradedResult, provider |-> provider, attempts |-> att,
        calls |-> calls]
  ELSE AttemptSettles(env, att + 1, response, provider,
                      AttemptCall(env, att + 1, llmCompletion(env)), calls)

\* part_001 lines 279-329: what researchCompletion resolves with for a row that
\* has data when the backends answer as in env, and the provider calls it made
researchCompletion(env) == ResearchLoop(env, 0, <<>>, "openrouter", <<>>)

\* part_002 line 168: Object.entries(entityData) on a row without data raises
\* this TypeError, so researchCompletion rejects before any provider call
NoDataMessage == "Cannot convert undefined or null to object"

\* part_004 lines 595-603; `at` tells the Date.now() of one call from another
toResearchResult(extractedResult, at) ==
  [summary |-> extractedResult.summary, details |-> extractedResult.details,
   sources |-> extractedResult.sources, confidence |-> extractedResult.confidence,
   timestamp |-> at]

NoProcessorResult == [research |-> NullExtract, provider |-> "<none>"]

\* an entry of `events`
Event(status, result, error) == [status |-> status, result |-> result, error |-> error]

NoEventResult == toResearchResult(NullExtract, "<none>")

ProcessorCallResearchFirst ==
  <<Event("research", NoEventResult, ""), Event("processing", NoEventResult, "")>>

\* part_004 lines 512-520: the processor emits `processing`, then calls
\* researchCompletion
ProcessorCall ==
  <<Event("processing", NoEventResult, ""), Event("research", NoEventResult, "")>>

\* Map.prototype.set: a new key is appended, an existing key keeps its place
MapSet(map, id, value) ==
  IF \E k \in 1..Len(map) : map[k].id = id
  THEN [k \in 1..Len(map) |-> IF map[k].id = id THEN [id |-> id, value |-> value]
                                                 ELSE map[k]]
  ELSE Append(map, [id |-> id, value |-> value])

\* part_004 lines 526-543: the onProgress callback processRows hands to
\* processWithRetry; hasResult: `result` is an object, message: error?.message
ProgressEvent(hasResult, message, extractedResult) ==
  IF message # "" \/ ~hasResult
  THEN Event("error", NoEventResult, IF message # "" THEN message ELSE "Unknown error")
  ELSE Event("completed", toResearchResult(extractedResult, "onProgress"), "")

RECURSIVE CollectAll(_, _)
CollectAll(map, k) ==
  IF k > Len(returned') THEN map
  ELSE CollectAll(MapSet(map, k, toResearchResult(processorResult[k].research,
                                                  "collect")), k + 1)

\* part_004 lines 549-553: the loop over processedResults from entry k on
RECURSIVE Collect(_, _)
Collect(map, k) ==
  IF k > Len(returned') THEN map
  ELSE IF returned'[k].result # Null
       THEN Collect(MapSet(map, k, toResearchResult(processorResult[k].research,
                                                    "collect")), k + 1)
  ELSE Collect(map, k + 1)

NoneSent == [type |-> "<none>", summary |-> <<>>, totalProcessed |-> 0, totalRows |-> 0]

NoResearch == [result |-> NullExtract, provider |-> "<none>", attempts |-> 0]

\* no request is being processed: there are no rows
RWIdle ==
  /\ rowData = <<>>
  /\ rowEnv = <<>>
  /\ rowResearch = <<>>
  /\ events = <<>>
  /\ processorResult = <<>>
  /\ resultsMap = <<>>
  /\ reqPc = "rows"
  /\ aggregated = <<>>
  /\ voiceCalls = <<>>
  /\ voiceSummary = <<>>
  /\ sent = NoneSent
  /\ messages = <<>>
  /\ ttsSession = "none"

\* part_004 line 491, orchestrator.ts lines 46-55: processRows hands the rows
\* to a rate limiter made with concurrency 5 and the default retries
WorkerRows ==
  /\ concurrency = DEFAULT_CONCURRENCY
  /\ maxRetries = MAX_RETRIES
  /\ total \in 0..MaxItems
  /\ queue = [k \in 1..total |-> k]
  /\ activeCount = 0
  /\ pc = [i \in Items |-> IF i <= total THEN "queued" ELSE "absent"]
  /\ attempt = [i \in Items |-> 0]
  /\ lastError = [i \in Items |-> NoError]
  /\ sleepMs = [i \in Items |-> 0]
  /\ invocations = [i \in Items |-> 0]
  /\ completed = 0
  /\ progressCalls = [i \in Items |-> <<>>]
  /\ progressCompleted = <<>>
  /\ progressItems = <<>>
  /\ results = [i \in Items |-> NoResult]
  /\ batch = "pending"
  /\ returned = <<>>
  /\ rowData \in [Items -> BOOLEAN]
  /\ rowEnv \in [Items -> Envs]
  /\ \A i \in Items :
       (i > total \/ ~rowData[i]) =>
         /\ rowEnv[i] = [primary |-> ReplyValid, secondary |-> ReplyValid]
         /\ i > total => rowData[i]
  /\ rowResearch = [i \in Items |-> researchCompletion(rowEnv[i])]
  /\ events = [i \in Items |-> <<>>]
  /\ processorResult = [i \in Items |-> NoProcessorResult]
  /\ resultsMap = <<>>
  /\ aggregated = <<>>
  /\ voiceCalls = <<>>
  /\ voiceSummary = <<>>
  /\ sent = NoneSent
  /\ ttsSession = "none"

\* orchestrator.ts lines 33-55: processRequest was called with a spreadsheet
\* whose rows are an array; it has sent `status` and called processRows
WorkerInit ==
  /\ WorkerRows
  /\ reqPc = "rows"
  /\ messages = <<"status">>

\* orchestrator.ts lines 46-52: the worker's onProgress sends one
\* research_update for each progress event
ResearchUpdates(old, new) ==
  [k \in 1..Cardinality({j \in (Len(old) + 1)..Len(new) :
                           new[j].status # "research"}) |-> "research_update"]

\* part_004 lines 510-520 under p-limit: the row's function starts and calls the
\* processor
RowStart(i) ==
  /\ reqPc = "rows"
  /\ StartCall(i)
  /\ events' = [events EXCEPT ![i] = @ \o ProcessorCall]
  /\ messages' = messages \o ResearchUpdates(events[i], events'[i])
  /\ UNCHANGED <<rowData, rowEnv, rowResearch, processorResult, resultsMap, reqPc, aggregated,
                 voiceCalls, voiceSummary, sent, ttsSession>>
  /\ UNCHANGED <<progressItems, rcVars, exVars, mrVars, srVars, stVars, wsVars>>

\* part_004 lines 526-543: onProgress records a `completed` event in the Map
OnProgress(i, event) ==
  /\ events' = [events EXCEPT ![i] = Append(@, event)]
  /\ resultsMap' = IF event.status = "completed"
                   THEN MapSet(resultsMap, i, event.result)
                   ELSE resultsMap

\* part_004 lines 520-524: the processor returns { row, research, provider }
ProcessorReturns(i, out) ==
  /\ processorResult' = [processorResult EXCEPT ![i] =
                           [research |-> out.result, provider |-> out.provider]]
  /\ OnProgress(i, ProgressEvent(TRUE, "", out.result))

\* part_004 lines 520-524, 526-543: researchCompletion resolved, the processor
\* returns and onProgress is called with what it returned
RowResolves(i) ==
  /\ rowData[i]
  /\ CallResolves(i)
  /\ ProcessorReturns(i, rowResearch[i])
  /\ messages' = messages \o ResearchUpdates(events[i], events'[i])
  /\ UNCHANGED <<rowData, rowEnv, rowResearch, reqPc, aggregated, voiceCalls, voiceSummary, sent,
                 ttsSession>>
  /\ UNCHANGED <<progressItems, rcVars, exVars, mrVars, srVars, stVars, wsVars>>

\* part_004 line 520 on a row without data: researchCompletion rejects; the rate
\* limiter backs off and calls the processor again, or gives up and calls
\* onProgress with the error
RowRejects(i) ==
  /\ ~rowData[i]
  /\ CallRejects(i, NoDataMessage)
  /\ events' = [events EXCEPT ![i] =
        IF pc'[i] = "settled"
        THEN Append(@, ProgressEvent(FALSE, progressCalls'[i][1].error.message,
                                     NullExtract))
        ELSE IF invocations'[i] > invocations[i] THEN @ \o ProcessorCall
        ELSE @]
  /\ messages' = messages \o ResearchUpdates(events[i], events'[i])
  /\ UNCHANGED <<rowData, rowEnv, rowResearch, processorResult, resultsMap, reqPc, aggregated,
                 voiceCalls, voiceSummary, sent, ttsSession>>
  /\ UNCHANGED <<progressItems, rcVars, exVars, mrVars, srVars, stVars, wsVars>>

\* the backoff of a row ended: the processor is called again
RowWake(i) ==
  /\ SleepEnds(i)
  /\ events' = [events EXCEPT ![i] =
        IF pc'[i] = "settled"
        THEN Append(@, ProgressEvent(FALSE, progressCalls'[i][1].error.message,
                                     NullExtract))
        ELSE @ \o ProcessorCall]
  /\ messages' = messages \o ResearchUpdates(events[i], events'[i])
  /\ UNCHANGED <<rowData, rowEnv, rowResearch, processorResult, resultsMap, reqPc, aggregated,
                 voiceCalls, voiceSummary, sent, ttsSession>>
  /\ UNCHANGED <<progressItems, rcVars, exVars, mrVars, srVars, stVars, wsVars>>

\* part_004 lines 510, 549-556 and orchestrator.ts lines 55-76: processWithRetry
\* resolved, processRows collects and returns the Map; processRequest starts
\* mapReduceResearch if the Map has entries and streamTTS otherwise
RowsReturn ==
  /\ reqPc = "rows"
  /\ PromiseAllResolves
  /\ resultsMap' = Collect(resultsMap, 1)
  /\ IF Len(resultsMap') > 0
     THEN reqPc' = "aggregate" /\ UNCHANGED voiceSummary
     ELSE reqPc' = "tts" /\ voiceSummary' = <<"Research complete.">>
  /\ UNCHANGED <<rowData, rowEnv, rowResearch, events, processorResult, aggregated, voiceCalls, sent,
                 messages, ttsSession>>
  /\ UNCHANGED <<progressItems, rcVars, exVars, mrVars, srVars, stVars, wsVars>>

\* Texts the Secondary backend may return for a summary prompt.
SummaryReplies ==
  {[ok |-> TRUE, content |-> <<"All", " ", "rows", " ", "look", " ", "fine.">>],
   [ok |-> TRUE, content |-> <<>>],
   ReplyThrows}

\* orchestrator.ts line 116: a text shorter than this is spoken in one shot
TTS_ONE_SHOT_CHARS == 500

\* What the Secondary backend may return for the voice prompt: those, and a
\* text as long as streamTTS takes for streaming.
VoiceReplies ==
  SummaryReplies \cup {[ok |-> TRUE, content |-> LongProse(TTS_ONE_SHOT_CHARS)]}

\* part_004 lines 216-273, 279-296: mapReduceResearch for at most
\* AGGREGATION_CHUNK_SIZE results: one aggregateSummaries call, whose completion
\* resolves or rejects
AggregateSettles(reply) ==
  /\ reqPc = "aggregate"
  /\ Len(resultsMap) <= AGGREGATION_CHUNK_SIZE
  /\ aggregated' =
       IF reply.ok THEN reply.content
       ELSE ConcatenateSummaries(mapSummarize([k \in 1..Len(resultsMap) |->
                                                  resultsMap[k].value]))
  /\ reqPc' = "voice"
  /\ UNCHANGED <<rowData, rowEnv, rowResearch, events, processorResult, resultsMap, voiceCalls,
                 voiceSummary, sent, messages, ttsSession>>
  /\ UNCHANGED <<rlVars, rcVars, exVars, mrVars, srVars, stVars, wsVars>>

\* part_004 lines 301-318, orchestrator.ts line 76: the completion of
\* generateVoiceSummary resolves or rejects
VoiceSettles(reply) ==
  /\ reqPc = "voice"
  /\ voiceCalls' = Append(voiceCalls, reply)
  /\ voiceSummary' = IF reply.ok THEN reply.content
                     ELSE VoiceTemplate(aggregated, Len(resultsMap))
  /\ reqPc' = "tts"
  /\ UNCHANGED <<rowData, rowEnv, rowResearch, events, processorResult, resultsMap, aggregated, sent,
                 messages, ttsSession>>
  /\ UNCHANGED <<rlVars, rcVars, exVars, mrVars, srVars, stVars, wsVars>>

\* total processed in place of the size of the Map
CompleteMessageOfRows(summary, processed, rows) ==
  [type |-> "research_complete", summary |-> summary,
   totalProcessed |-> rows, totalRows |-> rows]

\* orchestrator.ts lines 83-91: the research_complete message
CompleteMessage(summary, processed, rows) ==
  [type |-> "research_complete", summary |-> summary,
   totalProcessed |-> processed, totalRows |-> rows]

\* orchestrator.ts lines 116-126: textToSpeech resolved, the audio is sent and
\* after it audio_chunk {isLast: true}; it rejected (lines 152-155): nothing is
\* sent. Lines 128-151, for a longer text: audio_chunk is sent by the session's
\* onComplete, which is only called for a message that arrives after streamTTS
\* has returned.
AudioMessages(text, ok) ==
  IF ok /\ TextLength(text, 1) < TTS_ONE_SHOT_CHARS THEN <<"audio_chunk">> ELSE <<>>

\* orchestrator.ts lines 128-151: connect() resolved, the sentences were sent
\* and close() flushed the session
SessionAfterTTS(text, ok) ==
  IF ok /\ TextLength(text, 1) >= TTS_ONE_SHOT_CHARS THEN "open" ELSE "none"

\* orchestrator.ts lines 80-91, 111-157: streamTTS settles (its failure is caught
\* inside it) and research_complete is sent; ok: the text-to-speech request or
\* connection succeeded
TTSSettles(ok) ==
  /\ reqPc = "tts"
  /\ sent' = CompleteMessage(voiceSummary, Len(resultsMap), total)
  /\ messages' = messages \o AudioMessages(voiceSummary, ok) \o <<"research_complete">>
  /\ ttsSession' = SessionAfterTTS(voiceSummary, ok)
  /\ reqPc' = "done"
  /\ UNCHANGED <<rowData, rowEnv, rowResearch, events, processorResult, resultsMap, aggregated,
                 voiceCalls, voiceSummary>>
  /\ UNCHANGED <<rlVars, rcVars, exVars, mrVars, srVars, stVars, wsVars>>

\* elevenlabs.ts lines 73-88, orchestrator.ts lines 131-137: the session's
\* final message arrives and onComplete sends audio_chunk {isLast: true}
TTSFinal ==
  /\ ttsSession = "open"
  /\ ttsSession' = "ended"
  /\ messages' = Append(messages, "audio_chunk")
  /\ UNCHANGED <<rowData, rowEnv, rowResearch, events, processorResult, resultsMap, reqPc,
                 aggregated, voiceCalls, voiceSummary, sent>>
  /\ UNCHANGED <<rlVars, rcVars, exVars, mrVars, srVars, stVars, wsVars>>

\* What a research_request may carry as spreadsheetData: rows that are an
\* array, no spreadsheetData at all, rows that are not an array.
Requests == {"rows", "noSpreadsheet", "rowsNotArray"}

\* orchestrator.ts lines 29-55, 92-104: processRequest is called. Line 35 reads
\* spreadsheetData.rows.length before `status` is sent and outside the try:
\* without spreadsheetData the call rejects there. Rows that are not an array
\* make processWithRetry's items.map throw inside the try (part_004 line 358):
\* `status` was sent, and the catch sends `error`.
RequestStarts(request) ==
  /\ reqPc = "start"
  /\ request # "rows" => total = 0
  /\ reqPc' = CASE request = "rows" -> "rows"
                [] request = "noSpreadsheet" -> "rejected"
                [] request = "rowsNotArray" -> "done"
  /\ messages' = CASE request = "rows" -> <<"status">>
                    [] request = "noSpreadsheet" -> <<>>
                    [] request = "rowsNotArray" -> <<"status", "error">>
  /\ UNCHANGED <<rowData, rowEnv, rowResearch, events, processorResult, resultsMap,
                 aggregated, voiceCalls, voiceSummary, sent, ttsSession>>
  /\ UNCHANGED <<rlVars, rcVars, exVars, mrVars, srVars, stVars, wsVars>>

----------------------------------------------------------------------------
(* services/mapReduce.ts: mapSummarize *)

\* a text of n words: 1 2 ... n
WordsText(n) ==
  [k \in 1..(IF n = 0 THEN 0 ELSE 2 * n - 1) |->
     IF k % 2 = 1 THEN ToString((k + 1) \div 2) ELSE " "]

\* the text as it is, behind a space, or in front of a line break
Padded(text, padding) ==
  CASE padding = "leading" -> <<" ">> \o text
    [] padding = "trailing" -> text \o <<"\n">>
    [] OTHER -> text

\* details with n key_findings f1 .. fn; none: details without that key
DetailsWithFindings(n) ==
  IF n = 0 THEN EmptyObject
  ELSE JValue("object", <<>>, <<>>,
              {[k |-> <<"key_findings">>,
                v |-> JValue("array", <<>>,
                             [j \in 1..n |-> JString(<<"f", ToString(j)>>)], {})]})

\* Results whose summary has about MAX_SUMMARY_WORDS words.
SummarizedResults ==
  {[summary |-> Padded(WordsText(n), padding), details |-> DetailsWithFindings(f),
    sources |-> Undefined, confidence |-> 9] :
     n \in (MAX_SUMMARY_WORDS - 1)..(MAX_SUMMARY_WORDS + 1),
     padding \in {"none", "leading", "trailing"},
     f \in {0, MaxFindings}}

SummarizeInit ==
  /\ reduction = <<>>
  /\ \E extracted \in SeqsUpTo(SummarizedResults, MaxResults) :
       mapped = [pc |-> "start", results |-> extracted, summaries |-> <<>>]

\* part_004 lines 196-211: mapSummarize is called on the results
Summarize ==
  /\ mapped.pc = "start"
  /\ mapped' = [mapped EXCEPT !.pc = "done", !.summaries = mapSummarize(mapped.results)]
  /\ UNCHANGED reduction
  /\ UNCHANGED <<rlVars, rcVars, exVars, rwVars, srVars, stVars, wsVars>>

----------------------------------------------------------------------------
(* services/mapReduce.ts: reduceAggregate *)

\* no reduceAggregate call is under way
MRIdle == mapped = <<>> /\ reduction = <<>>

\* the summaries of a call of n summaries: s1, s2, ...
InputSummaries(n) == [i \in 1..n |-> <<"s", ToString(i)>>]

\* lines 243-266: aggregateSummaries(summaries) has called geminiSimpleCompletion
AggregationCall(level, summaries) ==
  [level |-> level, summaries |-> summaries, state |-> "pending", result |-> <<>>]

\* lines 265-271: the completion of an aggregation call resolved or threw
SettledCall(call, reply) ==
  [call EXCEPT !.state = IF reply.ok THEN "ok" ELSE "failed",
               !.result = IF reply.ok THEN reply.content
                          ELSE ConcatenateSummaries(call.summaries)]

\* chunks of three summaries
ChunksOfThree(summaries) ==
  [k \in 1..((Len(summaries) + 2) \div 3) |->
     SubSeq(summaries, (k - 1) * 3 + 1,
            IF k * 3 < Len(summaries) THEN k * 3 ELSE Len(summaries))]

\* lines 226-229: the chunks of AGGREGATION_CHUNK_SIZE consecutive summaries
Chunks(summaries) ==
  [k \in 1..((Len(summaries) + AGGREGATION_CHUNK_SIZE - 1) \div AGGREGATION_CHUNK_SIZE) |->
     SubSeq(summaries, (k - 1) * AGGREGATION_CHUNK_SIZE + 1,
            IF k * AGGREGATION_CHUNK_SIZE < Len(summaries)
            THEN k * AGGREGATION_CHUNK_SIZE ELSE Len(summaries))]

\* the summaries of the first chunk only
FirstLevelSummariesOfOneChunk(calls) ==
  [k \in 1..(IF Len(calls) < AGGREGATION_CHUNK_SIZE THEN Len(calls)
             ELSE AGGREGATION_CHUNK_SIZE) |-> calls[k].result]

\* lines 232-234: what the calls of the chunks returned, in the order of the chunks
FirstLevelSummaries(calls) == [k \in 1..Len(calls) |-> calls[k].result]

\* the largest number of chunks of a call
MaxChunks == (MaxSummaries + AGGREGATION_CHUNK_SIZE - 1) \div AGGREGATION_CHUNK_SIZE

ReduceInit ==
  /\ mapped = <<>>
  /\ \E n \in 0..MaxSummaries :
    reduction = [pc |-> "start", summaries |-> InputSummaries(n), calls |-> <<>>,
                 result |-> <<>>]

\* lines 221-234: at most AGGREGATION_CHUNK_SIZE summaries go to one call; more
\* are cut into chunks, and Promise.all starts one call for each chunk
ReduceStarts ==
  /\ reduction.pc = "start"
  /\ \E chunks \in {Chunks(reduction.summaries)} :
       IF Len(reduction.summaries) <= AGGREGATION_CHUNK_SIZE
       THEN reduction' = [reduction EXCEPT
              !.pc = "final",
              !.calls = <<AggregationCall("direct", reduction.summaries)>>]
       ELSE reduction' = [reduction EXCEPT
              !.pc = "chunks",
              !.calls = [k \in 1..Len(chunks) |-> AggregationCall("chunk", chunks[k])]]
  /\ UNCHANGED mapped
  /\ UNCHANGED <<rlVars, rcVars, exVars, rwVars, srVars, stVars, wsVars>>

\* lines 265-271 for the call of chunk k
ChunkSettles(k, reply) ==
  /\ reduction.pc = "chunks"
  /\ k \in 1..Len(reduction.calls)
  /\ reduction.calls[k].state = "pending"
  /\ reduction' = [reduction EXCEPT !.calls[k] = SettledCall(@, reply)]
  /\ UNCHANGED mapped
  /\ UNCHANGED <<rlVars, rcVars, exVars, rwVars, srVars, stVars, wsVars>>

\* lines 232-237: Promise.all resolved with the first-level summaries, which go
\* to one more call
FinalStarts ==
  /\ reduction.pc = "chunks"
  /\ \A k \in 1..Len(reduction.calls) : reduction.calls[k].state # "pending"
  /\ reduction' = [reduction EXCEPT
       !.pc = "final",
       !.calls = Append(@, AggregationCall("final",
                                           FirstLevelSummaries(reduction.calls)))]
  /\ UNCHANGED mapped
  /\ UNCHANGED <<rlVars, rcVars, exVars, rwVars, srVars, stVars, wsVars>>

\* lines 222, 237: the last call settled and reduceAggregate resolves with what
\* it returned
FinalSettles(reply) ==
  /\ reduction.pc = "final"
  /\ \E call \in {SettledCall(reduction.calls[Len(reduction.calls)], reply)} :
       reduction' = [reduction EXCEPT !.pc = "done",
                                      !.calls[Len(reduction.calls)] = call,
                                      !.result = call.result]
  /\ UNCHANGED mapped
  /\ UNCHANGED <<rlVars, rcVars, exVars, rwVars, srVars, stVars, wsVars>>

----------------------------------------------------------------------------
(* workers/researchWorker.ts: processSingleRow *)

\* no processSingleRow call is under way
SRIdle == singleRow = <<>>

\* no stream is read
STIdle == stream = <<>>

\* no hook is mounted
WSIdle == hook = <<>>

\* `null`, and a ResearchResult, as the value processSingleRow resolves with
ReturnedNull == [null |-> TRUE, value |-> NoEventResult]

ReturnedResult(researchResult) == [null |-> FALSE, value |-> researchResult]

\* the row is given with or without its data
SingleRowInit ==
  \E hasData \in BOOLEAN :
    singleRow = [pc |-> "start", hasData |-> hasData, events |-> <<>>,
                 returned |-> ReturnedNull]

\* the catch block without its onProgress call
CaughtSilently(row, message) == [row EXCEPT !.pc = "done", !.returned = ReturnedNull]

\* part_004 lines 583-590: the catch block emits `error` and returns null
Caught(row, message) ==
  [row EXCEPT !.pc = "done",
              !.events = Append(@, Event("error", NoEventResult, message)),
              !.returned = ReturnedNull]

\* part_004 lines 567-572: `processing` is emitted and researchCompletion is
\* called; on a row without data it rejects before any provider call
SingleRowStarts ==
  /\ singleRow.pc = "start"
  /\ singleRow' = [singleRow EXCEPT
       !.pc = "research",
       !.events = Append(@, Event("processing", NoEventResult, ""))]
  /\ IF singleRow.hasData THEN RCStartCall ELSE UNCHANGED rcVars
  /\ UNCHANGED <<rlVars, exVars, rwVars, mrVars, stVars, wsVars>>

\* part_004 lines 572-581: researchCompletion resolved; `completed` is emitted
\* with the ResearchResult, which is returned
SingleRowResolves ==
  /\ singleRow.pc = "research"
  /\ singleRow.hasData
  /\ rcPc = "done"
  /\ \E researchResult \in {toResearchResult(outcome.result, "processSingleRow")} :
       singleRow' = [singleRow EXCEPT
         !.pc = "done",
         !.events = Append(@, Event("completed", researchResult, "")),
         !.returned = ReturnedResult(researchResult)]
  /\ UNCHANGED <<rlVars, rcVars, exVars, rwVars, mrVars, stVars, wsVars>>

\* part_004 lines 572, 582-590: researchCompletion rejected
SingleRowRejects ==
  /\ singleRow.pc = "research"
  /\ ~singleRow.hasData
  /\ singleRow' = Caught(singleRow, NoDataMessage)
  /\ UNCHANGED <<rlVars, rcVars, exVars, rwVars, mrVars, stVars, wsVars>>

----------------------------------------------------------------------------
(* processWithRetry on its own: nothing else runs *)

Start(i) ==
  StartCall(i) /\ UNCHANGED <<progressItems, rcVars, exVars, rwVars, mrVars, srVars, stVars, wsVars>>

ProcessorResolves(i) ==
  CallResolves(i) /\ UNCHANGED <<progressItems, rcVars, exVars, rwVars, mrVars, srVars, stVars, wsVars>>

ProcessorRejects(i, message) ==
  CallRejects(i, message) /\ UNCHANGED <<progressItems, rcVars, exVars, rwVars, mrVars, srVars, stVars, wsVars>>

Wake(i) ==
  SleepEnds(i) /\ UNCHANGED <<progressItems, rcVars, exVars, rwVars, mrVars, srVars, stVars, wsVars>>

BatchResolves ==
  PromiseAllResolves /\ UNCHANGED <<progressItems, rcVars, exVars, rwVars, mrVars, srVars, stVars, wsVars>>

Init == RLInit /\ RCUnused /\ EXUnused /\ RWIdle /\ MRIdle /\ SRIdle /\ STIdle /\ WSIdle

\* processWithRetry with processors that reject with Error objects
Next ==
  \/ \E i \in Items : Start(i)
  \/ \E i \in Items : ProcessorResolves(i)
  \/ \E i \in Items, m \in Messages : ProcessorRejects(i, m)
  \/ \E i \in Items : Wake(i)
  \/ BatchResolves

Spec == Init /\ [][Next]_vars

\* processWithRetry with a progress callback that notes the item of each call
\* (lines 366, 390: onProgress?.(completed, total, item, ...))
NotesItem(i) ==
  progressItems' = IF Len(progressCalls'[i]) > Len(progressCalls[i])
                   THEN Append(progressItems, i)
                   ELSE progressItems

StartOrdered(i) ==
  StartCall(i) /\ UNCHANGED <<progressItems, rcVars, exVars, rwVars, mrVars, srVars, stVars, wsVars>>

ResolvesOrdered(i) ==
  CallResolves(i) /\ NotesItem(i) /\ UNCHANGED <<rcVars, exVars, rwVars, mrVars, srVars, stVars, wsVars>>

RejectsOrdered(i, message) ==
  /\ CallRejects(i, message) /\ NotesItem(i)
  /\ UNCHANGED <<rcVars, exVars, rwVars, mrVars, srVars, stVars, wsVars>>

WakeOrdered(i) ==
  SleepEnds(i) /\ NotesItem(i) /\ UNCHANGED <<rcVars, exVars, rwVars, mrVars, srVars, stVars, wsVars>>

NextOrdered ==
  \/ \E i \in Items : StartOrdered(i)
  \/ \E i \in Items : ResolvesOrdered(i)
  \/ \E i \in Items, m \in Messages : RejectsOrdered(i, m)
  \/ \E i \in Items : WakeOrdered(i)
  \/ BatchResolves

SpecOrdered == Init /\ [][NextOrdered]_vars

\* processWithRetry with a progress callback that may throw an Error when it is
\* told of a success: the message of that Error
CallbackMessage == "onProgress failed"

\* lines 364-366: the processor resolved, completed++, and onProgress threw
\* inside the try; lines 368-386: the catch takes the callback's error for a
\* failure of the attempt. On the last attempt no sleep follows: the loop ends,
\* lines 389-390 count the item once more and call onProgress with null and the
\* error; `again` tells whether that call throws as well, in which case the
\* item's function rejects and with it Promise.all.
ResolvesProgressThrows(i, message, again) ==
  /\ pc[i] = "calling"
  /\ LET thrown == [message |-> message, at |-> attempt[i]]
         error == AssignLastError(lastError[i], thrown)
         success == [result |-> ResultOf(i), error |-> NoError]
         failure == [result |-> Null, error |-> error] IN
     IF RetriesRemain(attempt[i])
     THEN /\ completed' = completed + 1
          /\ progressCalls' = [progressCalls EXCEPT ![i] = Append(@, success)]
          /\ progressCompleted' = Append(progressCompleted, completed + 1)
          /\ lastError' = [lastError EXCEPT ![i] = error]
          /\ sleepMs' = [sleepMs EXCEPT ![i] = Backoff(error, attempt[i])]
          /\ pc' = [pc EXCEPT ![i] = "sleeping"]
          /\ UNCHANGED <<attempt, results, activeCount, batch>>
     ELSE /\ completed' = completed + 2
          /\ progressCalls' = [progressCalls EXCEPT ![i] = @ \o <<success, failure>>]
          /\ progressCompleted' = progressCompleted \o <<completed + 1, completed + 2>>
          /\ activeCount' = Release(activeCount, TRUE)
          /\ attempt' = [attempt EXCEPT ![i] = 0]
          /\ lastError' = [lastError EXCEPT ![i] = NoError]
          /\ sleepMs' = [sleepMs EXCEPT ![i] = 0]
          /\ IF again
             THEN /\ pc' = [pc EXCEPT ![i] = "rejected"]
                  /\ batch' = IF batch = "pending" THEN "rejected" ELSE batch
                  /\ UNCHANGED results
             ELSE /\ pc' = [pc EXCEPT ![i] = "settled"]
                  /\ results' = [results EXCEPT ![i] =
                        [item |-> i, result |-> Null, error |-> error]]
                  /\ UNCHANGED batch
  /\ UNCHANGED <<concurrency, maxRetries, total, queue, invocations, returned>>
  /\ UNCHANGED <<progressItems, rcVars, exVars, rwVars, mrVars, srVars, stVars, wsVars>>

NextProgressThrows ==
  \/ \E i \in Items : Start(i)
  \/ \E i \in Items : ProcessorResolves(i)
  \/ \E i \in Items, again \in BOOLEAN :
       ResolvesProgressThrows(i, CallbackMessage, again)
  \/ \E i \in Items, m \in Messages : ProcessorRejects(i, m)
  \/ \E i \in Items : Wake(i)
  \/ BatchResolves

SpecProgressThrows == Init /\ [][NextProgressThrows]_vars

\* processWithRetry with processors that may reject with any value
NextAnyThrow ==
  \/ \E i \in Items : Start(i)
  \/ \E i \in Items : ProcessorResolves(i)
  \/ \E i \in Items, m \in Messages \cup {NoMessage} : ProcessorRejects(i, m)
  \/ \E i \in Items : Wake(i)
  \/ BatchResolves

SpecAnyThrow == Init /\ [][NextAnyThrow]_vars

\* The scheduling the runtime guarantees: p-limit starts the head of its queue once
\* a slot is free, every processor call settles, every timer fires, and a promise
\* whose inputs have all resolved resolves; so a step that can be taken is
\* eventually taken. Every step moves an item forward, so weak fairness of the
\* whole next-state relation is all that is needed.
RLFairness == WF_vars(Next)

SpecFair == Init /\ [][Next]_vars /\ RLFairness

\* one research call
InitResearch == RLIdle /\ RCIdle /\ EXUnused /\ RWIdle /\ MRIdle /\ SRIdle /\ STIdle /\ WSIdle

NextResearch ==
  \/ RCStart
  \/ \E t \in Responses : PrimaryResponds(t)
  \/ \E m \in ProviderErrors : PrimaryThrows(m)
  \/ TimeoutFires
  \/ \E t \in Texts : LatePrimaryResponds(t)
  \/ \E m \in ProviderErrors : LatePrimaryThrows(m)
  \/ LateTimerFires
  \/ \E t \in Responses : SecondaryResponds(t)
  \/ \E m \in ProviderErrors : SecondaryThrows(m)
  \/ \E t \in Responses : RepairResponds(t)
  \/ \E m \in ProviderErrors : RepairThrows(m)

SpecResearch == InitResearch /\ [][NextResearch]_vars

\* one extractor call
InitExtract == RLIdle /\ RCUnused /\ EXInit /\ RWIdle /\ MRIdle /\ SRIdle /\ STIdle /\ WSIdle

NextExtract == Extract

SpecExtract == InitExtract /\ [][NextExtract]_vars

\* one processRequest
InitRequest == WorkerInit /\ RCUnused /\ EXUnused /\ MRIdle /\ SRIdle /\ STIdle /\ WSIdle

NextRequest ==
  \/ \E i \in Items : RowStart(i)
  \/ \E i \in Items : RowResolves(i)
  \/ \E i \in Items : RowRejects(i)
  \/ \E i \in Items : RowWake(i)
  \/ RowsReturn
  \/ \E r \in SummaryReplies : AggregateSettles(r)
  \/ \E r \in VoiceReplies : VoiceSettles(r)
  \/ \E ok \in BOOLEAN : TTSSettles(ok)
  \/ TTSFinal

SpecRequest == InitRequest /\ [][NextRequest]_vars

\* one processRequest called with whatever the research_request carried
InitAnyRequest ==
  /\ WorkerRows /\ reqPc = "start" /\ messages = <<>>
  /\ RCUnused /\ EXUnused /\ MRIdle /\ SRIdle /\ STIdle /\ WSIdle

NextAnyRequest ==
  \/ \E request \in Requests : RequestStarts(request)
  \/ NextRequest

SpecAnyRequest == InitAnyRequest /\ [][NextAnyRequest]_vars

\* Every provider call, timer and promise of a request settles, so a step that
\* can be taken is eventually taken.
SpecRequestFair == InitRequest /\ [][NextRequest]_vars /\ WF_vars(NextRequest)

\* one call of processSingleRow
InitSingleRow == RLIdle /\ RCIdle /\ EXUnused /\ RWIdle /\ MRIdle /\ SingleRowInit /\ STIdle /\ WSIdle

NextSingleRow ==
  \/ SingleRowStarts
  \/ \E t \in Texts : PrimaryResponds(t)
  \/ \E m \in ProviderErrors : PrimaryThrows(m)
  \/ TimeoutFires
  \/ \E t \in Texts : LatePrimaryResponds(t)
  \/ \E m \in ProviderErrors : LatePrimaryThrows(m)
  \/ LateTimerFires
  \/ \E t \in Texts : SecondaryResponds(t)
  \/ \E m \in ProviderErrors : SecondaryThrows(m)
  \/ \E t \in Texts : RepairResponds(t)
  \/ \E m \in ProviderErrors : RepairThrows(m)
  \/ SingleRowResolves
  \/ SingleRowRejects

SpecSingleRow == InitSingleRow /\ [][NextSingleRow]_vars

\* one call of mapSummarize
InitSummarize == RLIdle /\ RCUnused /\ EXUnused /\ RWIdle /\ SummarizeInit /\ SRIdle /\ STIdle /\ WSIdle

NextSummarize == Summarize

SpecSummarize == InitSummarize /\ [][NextSummarize]_vars

\* one call of reduceAggregate
InitReduce == RLIdle /\ RCUnused /\ EXUnused /\ RWIdle /\ ReduceInit /\ SRIdle /\ STIdle /\ WSIdle

NextReduce ==
  \/ ReduceStarts
  \/ \E k \in 1..MaxChunks, reply \in SummaryReplies : ChunkSettles(k, reply)
  \/ FinalStarts
  \/ \E reply \in SummaryReplies : FinalSettles(reply)

SpecReduce == InitReduce /\ [][NextReduce]_vars

\* every aggregation call settles
SpecReduceFair == InitReduce /\ [][NextReduce]_vars /\ WF_vars(NextReduce)

----------------------------------------------------------------------------
(* clients/openrouter.ts and clients/llmOrchestrator.ts: openrouterStream   *)
(* under llmStreamCompletion                                                *)

\* largest number of `data` events of one response stream
MaxDataEvents == 3

\* largest number of lines in one `data` event
MaxLines == 2

\* A line of a chunk: `data: ` and a JSON object whose delta has the content
\* (an empty content: a delta without text), `data: [DONE]`, or anything else
\* (a comment, a line that does not start with `data: `, JSON cut in two).
DeltaLine(content) == [kind |-> "delta", content |-> content]

DoneLine == [kind |-> "done", content |-> ""]

OtherLine == [kind |-> "other", content |-> ""]

StreamLines == {DeltaLine("Hel"), DeltaLine("lo."), DeltaLine(""), DoneLine, OtherLine}

\* the chunks a `data` event may carry
StreamChunks == UNION {[1..n -> StreamLines] : n \in 1..MaxLines}

\* a promise settles once: resolve and reject of a settled promise do nothing
Settle(promise, settled) == IF promise = "pending" THEN settled ELSE promise

\* part_001 lines 266-267: llmStreamCompletion returns what openrouterStream
\* resolved with; its rejection starts the fallback
CallerAfter(promise, caller) ==
  IF promise = "resolved" /\ caller = "pending" THEN "resolved" ELSE caller

\* part_002 lines 120-124, part_001 lines 254-260: onComplete, resolve
StreamCompletes(st) ==
  [st EXCEPT !.calls = Append(@, "complete"),
             !.promise = Settle(@, "resolved"),
             !.caller = CallerAfter(Settle(st.promise, "resolved"), @)]

\* part_002 lines 141-144, 153-156: onError, reject
StreamFails(st) ==
  [st EXCEPT !.calls = Append(@, "error"),
             !.promise = Settle(@, "rejected")]

RECURSIVE ProcessLines(_, _, _)

\* part_002 lines 113-138: the lines of one chunk from the k-th on; `[DONE]`
\* completes and returns from the handler, a content is added and handed to
\* onChunk
ProcessLines(st, lines, k) ==
  IF k > Len(lines) THEN st
  ELSE IF lines[k].kind = "done" THEN StreamCompletes(st)
  ELSE IF lines[k].kind = "delta" /\ lines[k].content # ""
       THEN ProcessLines([st EXCEPT !.fullContent = Append(@, lines[k].content),
                                    !.calls = Append(@, "chunk")],
                         lines, k + 1)
       ELSE ProcessLines(st, lines, k + 1)

\* part_002 lines 90-93, part_001 lines 226-266: the request was made
StreamInit ==
  stream = [pc |-> "requesting", fullContent |-> <<>>, promise |-> "pending",
            calls |-> <<>>, chunks |-> 0, caller |-> "pending"]

\* part_002 lines 153-156: the request fails (no connection, a status that is
\* not 2xx, the timeout)
RequestFails ==
  /\ stream.pc = "requesting"
  /\ stream' = [StreamFails(stream) EXCEPT !.pc = "ended"]
  /\ UNCHANGED <<rlVars, rcVars, exVars, rwVars, mrVars, srVars, wsVars>>

\* part_002 lines 112-151: the response arrives and the handlers are attached
ResponseArrives ==
  /\ stream.pc = "requesting"
  /\ stream' = [stream EXCEPT !.pc = "streaming"]
  /\ UNCHANGED <<rlVars, rcVars, exVars, rwVars, mrVars, srVars, wsVars>>

\* part_002 lines 113-139: a `data` event
StreamData(chunk) ==
  /\ stream.pc = "streaming"
  /\ stream.chunks < MaxDataEvents
  /\ stream' = [ProcessLines(stream, chunk, 1) EXCEPT !.chunks = @ + 1]
  /\ UNCHANGED <<rlVars, rcVars, exVars, rwVars, mrVars, srVars, wsVars>>

\* part_002 lines 141-144: the `error` event
StreamError ==
  /\ stream.pc = "streaming"
  /\ stream' = [StreamFails(stream) EXCEPT !.pc = "ended"]
  /\ UNCHANGED <<rlVars, rcVars, exVars, rwVars, mrVars, srVars, wsVars>>

\* part_002 lines 146-151: the `end` event
StreamEnd ==
  /\ stream.pc = "streaming"
  /\ stream' = [(IF stream.fullContent # <<>> THEN StreamCompletes(stream) ELSE stream)
                  EXCEPT !.pc = "ended"]
  /\ UNCHANGED <<rlVars, rcVars, exVars, rwVars, mrVars, srVars, wsVars>>

\* part_001 lines 267-273: openrouterStream rejected and the Secondary
\* completion llmStreamCompletion falls back to settles; ok: it resolved, and
\* the caller's onComplete is called with its content
FallbackSettles(ok) ==
  /\ stream.promise = "rejected"
  /\ stream.caller = "pending"
  /\ stream' = [stream EXCEPT !.caller = IF ok THEN "resolved" ELSE "rejected",
                              !.calls = IF ok THEN Append(@, "fallback") ELSE @]
  /\ UNCHANGED <<rlVars, rcVars, exVars, rwVars, mrVars, srVars, wsVars>>

InitStream ==
  /\ RLIdle /\ RCUnused /\ EXUnused /\ RWIdle /\ MRIdle /\ SRIdle /\ StreamInit /\ WSIdle

NextStream ==
  \/ RequestFails
  \/ ResponseArrives
  \/ \E chunk \in StreamChunks : StreamData(chunk)
  \/ StreamError
  \/ StreamEnd
  \/ \E ok \in BOOLEAN : FallbackSettles(ok)

SpecStream == InitStream /\ [][NextStream]_vars

----------------------------------------------------------------------------
(* frontend hooks/useWebSocket.ts *)

\* largest number of sockets one hook creates
MaxSockets == 4

\* largest reconnectAttempts option
MaxReconnectAttempts == 2

\* line 50: wsRef.current?.readyState === WebSocket.OPEN
RefIsOpen(h) == h.wsRef # 0 /\ h.sockets[h.wsRef] = "open"

\* lines 42-47: the timer reconnectTimeoutRef names is cancelled
clearReconnectTimeout(h) ==
  IF h.refTimer THEN [h EXCEPT !.timers = @ - 1, !.refTimer = FALSE] ELSE h

\* lines 49-112: connect()
connect(h) ==
  IF RefIsOpen(h) THEN h
  ELSE [clearReconnectTimeout(h) EXCEPT
          !.status = "connecting",
          !.shouldReconnect = TRUE,
          !.sockets = Append(@, "connecting"),
          !.wsRef = Len(h.sockets) + 1]

\* WebSocket.close(): a socket that is connecting or open starts closing
CloseSocket(sockets, s) ==
  [k \in 1..Len(sockets) |->
     IF k = s /\ sockets[k] \in {"connecting", "open"} THEN "closing" ELSE sockets[k]]

\* lines 114-124: disconnect()
disconnect(h) ==
  [clearReconnectTimeout(h) EXCEPT
     !.shouldReconnect = FALSE,
     !.sockets = IF h.wsRef # 0 THEN CloseSocket(@, h.wsRef) ELSE @,
     !.wsRef = 0,
     !.status = "disconnected"]

\* lines 61-65: onopen
onopen(h) == [h EXCEPT !.status = "connected", !.reconnectCount = 0]

\* lines 67-81: onclose
onclose(h) ==
  IF h.shouldReconnect /\ h.reconnectCount < h.reconnectAttempts
  THEN [h EXCEPT !.status = "disconnected", !.wsRef = 0,
                 !.reconnectCount = @ + 1,
                 !.timers = @ + 1, !.refTimer = TRUE]
  ELSE [h EXCEPT !.status = "disconnected", !.wsRef = 0]

\* lines 24-40: the hook is mounted; sinceOpen counts the reconnect timers
\* that fired since a socket last opened, disconnected tells that disconnect()
\* was called and connect() was not called by the component since
HookInit ==
  \E option \in 0..MaxReconnectAttempts :
    hook = [sockets |-> <<>>, wsRef |-> 0, reconnectCount |-> 0,
            shouldReconnect |-> TRUE, timers |-> 0, refTimer |-> FALSE,
            reconnectAttempts |-> option, status |-> "disconnected",
            sinceOpen |-> 0, disconnected |-> FALSE]

\* lines 142-146, 157: the effect or the component calls connect()
Connect ==
  /\ Len(hook.sockets) < MaxSockets
  /\ hook' = [connect(hook) EXCEPT !.disconnected = FALSE]
  /\ UNCHANGED <<rlVars, rcVars, exVars, rwVars, mrVars, srVars, stVars>>

\* lines 148-150, 158: the effect's cleanup or the component calls disconnect()
Disconnect ==
  /\ hook' = [disconnect(hook) EXCEPT !.disconnected = TRUE]
  /\ UNCHANGED <<rlVars, rcVars, exVars, rwVars, mrVars, srVars, stVars>>

\* lines 61-65: the open event of socket s
SocketOpens(s) ==
  /\ s \in 1..Len(hook.sockets)
  /\ hook.sockets[s] = "connecting"
  /\ hook' = [onopen(hook) EXCEPT !.sockets[s] = "open", !.sinceOpen = 0]
  /\ UNCHANGED <<rlVars, rcVars, exVars, rwVars, mrVars, srVars, stVars>>

\* lines 67-81: the close event of socket s: the connection failed, the server
\* or the network closed it, or close() has finished
SocketCloses(s) ==
  /\ s \in 1..Len(hook.sockets)
  /\ hook.sockets[s] # "closed"
  /\ hook' = [onclose(hook) EXCEPT !.sockets[s] = "closed"]
  /\ UNCHANGED <<rlVars, rcVars, exVars, rwVars, mrVars, srVars, stVars>>

\* lines 83-86: the error event of socket s
SocketErrors(s) ==
  /\ s \in 1..Len(hook.sockets)
  /\ hook.sockets[s] \in {"connecting", "open"}
  /\ hook' = [hook EXCEPT !.status = "error"]
  /\ UNCHANGED <<rlVars, rcVars, exVars, rwVars, mrVars, srVars, stVars>>

\* lines 77-79: a reconnect timer fires and calls connect(); named: it is the
\* timer reconnectTimeoutRef names, and not one a later onclose replaced there
TimerFires(named) ==
  /\ hook.timers > 0
  /\ named => hook.refTimer
  /\ ~named => hook.timers > (IF hook.refTimer THEN 1 ELSE 0)
  /\ Len(hook.sockets) < MaxSockets
  /\ hook' = [connect([hook EXCEPT !.timers = @ - 1,
                                    !.refTimer = IF named THEN FALSE ELSE @])
               EXCEPT !.sinceOpen = @ + 1]
  /\ UNCHANGED <<rlVars, rcVars, exVars, rwVars, mrVars, srVars, stVars>>

InitHook ==
  /\ RLIdle /\ RCUnused /\ EXUnused /\ RWIdle /\ MRIdle /\ SRIdle /\ STIdle /\ HookInit

NextHook ==
  \/ Connect
  \/ Disconnect
  \/ \E s \in 1..MaxSockets : SocketOpens(s)
  \/ \E s \in 1..MaxSockets : SocketCloses(s)
  \/ \E s \in 1..MaxSockets : SocketErrors(s)
  \/ \E named \in BOOLEAN : TimerFires(named)

SpecHook == InitHook /\ [][NextHook]_vars

----------------------------------------------------------------------------
(* Claims about processWithRetry *)

InFlight == {i \in Items : pc[i] = "calling"}

HoldingSlot == {i \in Items : pc[i] \in {"calling", "sleeping"}}

Settled == {i \in Items : pc[i] = "settled"}

RateLimitMessages == {"HTTP 429", "rate limit exceeded", "too many requests"}

ExpectedRateLimitDelay(k) ==
  CASE k = 1 -> 1000 [] k = 2 -> 2000 [] k = 3 -> 4000 [] k = 4 -> 8000 [] OTHER -> -1

\* C1: at every moment at most `concurrency` processor invocations are in flight,
\* and an item's processor is started only in a state where fewer than
\* `concurrency` items hold a slot.
C1_AtMostKInFlight ==
  /\ [](Cardinality(InFlight) <= concurrency)
  /\ [][\A i \in Items :
          (pc[i] = "queued" /\ pc'[i] = "calling")
            => Cardinality(HoldingSlot) < concurrency]_vars

C1_Witness ==
  /\ Cardinality(InFlight) = concurrency
  /\ queue # <<>>

\* C2: the batch promise never rejects, whatever the processor throws; a failing
\* item is returned as data with result = null and the error of its last attempt.
C2_NeverRejects ==
  /\ batch # "rejected"
  /\ batch = "resolved" =>
        \A i \in 1..total :
          results[i].result = Null =>
            /\ returned[i].item = i
            /\ returned[i].result = Null
            /\ returned[i].error.at = invocations[i] - 1

\* C3: the returned array has length N, every submitted item appears in it exactly
\* once, and no item is retried (invoked after its first invocation) more than
\* maxRetries times.
C3_LengthOnceRetries ==
  /\ \A i \in Items : invocations[i] - 1 <= maxRetries
  /\ batch = "resolved" =>
        /\ Len(returned) = total
        /\ \A i \in 1..total :
              Cardinality({k \in 1..Len(returned) : returned[k].item = i}) = 1

C3_Witness ==
  /\ batch = "resolved"
  /\ maxRetries >= 2
  /\ \E i, j \in 1..total :
        /\ returned[i].result = Null /\ invocations[i] = maxRetries
        /\ returned[j].result # Null

\* C4: a slot is held exactly by the items that have started and not settled (it
\* is released on success and on exhaustion), and under fair scheduling every
\* submitted item is eventually started and settled and the batch resolves.
C4_SlotsReleasedAllSettle ==
  /\ [](activeCount = Cardinality(HoldingSlot))
  /\ <>(/\ batch = "resolved"
        /\ \A i \in 1..total : pc[i] = "settled" /\ invocations[i] >= 1)

C4_Witness ==
  /\ batch = "resolved"
  /\ total > concurrency
  /\ activeCount = 0
  /\ \E i, j \in 1..total : results[i].result = Null /\ results[j].result # Null

\* C5: onProgress has been called for an item exactly once if it has settled
\* and not at all before; the completed counts passed are 1, 2, ... in call order,
\* ending at N; a success carries the processor's result, an exhaustion carries
\* null and the error thrown by the item's last (maxRetries-th) invocation.
C5_ProgressOncePerItem ==
  /\ \A i \in Items : Len(progressCalls[i]) = IF pc[i] = "settled" THEN 1 ELSE 0
  /\ progressCompleted = [k \in 1..Cardinality(Settled) |-> k]
  /\ batch = "resolved" /\ total > 0 => progressCompleted[Len(progressCompleted)] = total
  /\ \A i \in Settled :
        LET call == progressCalls[i][1] IN
        IF results[i].result = Null
        THEN /\ call.result = Null
             /\ invocations[i] = maxRetries
             /\ call.error.at = invocations[i] - 1
             /\ call.error.message \in Messages
        ELSE /\ call.result = ResultOf(i)
             /\ call.error = NoError

C5_Witness ==
  /\ batch = "resolved"
  /\ total >= 2
  /\ maxRetries >= 2
  /\ \E i, j \in 1..total :
        /\ progressCalls[i][1].result = Null
        /\ progressCalls[j][1].result # Null /\ invocations[j] >= 2

\* C6: the delay slept before the k-th retry is initialBackoff * 2^(k-1) after a
\* failure with a rate-limit message and the flat initialBackoff otherwise; over
\* consecutive rate-limited failures of an item the delay strictly increases.
C6_BackoffDelays ==
  /\ [](\A i \in Items :
          pc[i] = "sleeping" =>
            sleepMs[i] = IF lastError[i].message \in RateLimitMessages
                         THEN ExpectedRateLimitDelay(invocations[i])
                         ELSE 1000)
  /\ [][\A i \in Items :
          ( /\ pc[i] = "calling" /\ pc'[i] = "sleeping"
            /\ lastError[i].message \in RateLimitMessages
            /\ lastError'[i].message \in RateLimitMessages )
            => sleepMs'[i] > sleepMs[i]]_vars

C6_Witness ==
  \E i \in Items :
    /\ pc[i] = "sleeping"
    /\ invocations[i] = 3
    /\ lastError[i].message = "rate limit exceeded"
    /\ sleepMs[i] = 4000

----------------------------------------------------------------------------
(* Claims about llmCompletion / researchCompletion *)

CallsOf(name) == {k \in 1..Len(callLog) : callLog[k] = name}

\* the response `call` returned passed extraction
Answered(call) ==
  /\ Len(responses) >= 1
  /\ responses[1].call = call
  /\ extractResearchResult(responses[1].content) # NullExtract

C9_BothFailThrows ==
  llmError # NoLlmError =>
    /\ rcPc = "done"
    /\ outcome.kind = "thrown"
    /\ outcome.error = llmError
    /\ CallsOf("geminiSimpleCompletion") = {}

\* C10: researchCompletion never ends by throwing, and when every response it
\* received (the initial one and each repair response) failed extraction it
\* returns the fixed degraded result: the apology summary, empty details,
\* confidence 0.1.
C10_MalformedOutputDegrades ==
  rcPc = "done" =>
    /\ outcome.kind = "returned"
    /\ (\A k \in 1..Len(responses) :
          extractResearchResult(responses[k].content) = NullExtract) =>
         /\ outcome.result.summary =
              <<"Research could not be completed due to processing errors.">>
         /\ outcome.result.details = EmptyObject
         /\ outcome.result.confidence = 1

C10_Witness ==
  /\ rcPc = "done"
  /\ Len(responses) = 3
  /\ \A k \in 1..3 : extractResearchResult(responses[k].content) = NullExtract
  /\ outcome.kind = "returned"
  /\ outcome.result.confidence = 1

\* some response received so far passed extraction
ExtractionSucceeded(resp) ==
  \E k \in 1..Len(resp) : extractResearchResult(resp[k].content) # NullExtract

\* C11: at most 2 repair calls are issued and at most 3 attempts are made in one
\* research call, and no provider call (so no repair call) is issued in or after
\* the step in which a response passed extraction.
C11_RepairLoopBounded ==
  /\ [](/\ Cardinality(CallsOf("geminiSimpleCompletion")) <= 2
        /\ attempts <= 3)
  /\ [][ExtractionSucceeded(responses') => callLog' = callLog]_vars

C11_Witness ==
  /\ rcPc = "done"
  /\ Cardinality(CallsOf("geminiSimpleCompletion")) = 2
  /\ attempts = 3
  /\ Len(responses) = 3
  /\ extractResearchResult(responses[3].content) # NullExtract

\* position of a provider call in the order Primary, Secondary, repair
StepRank(call) ==
  CASE call = "openrouterCompletion" -> 1
    [] call = "geminiCompletion" -> 2
    [] call = "geminiSimpleCompletion" -> 3

\* C12: the provider calls of one research call are issued in the order Primary,
\* Secondary, repair 1, repair 2 (Primary and Secondary at most once, at most two
\* repairs, the degraded result only after the last of them), a call is issued
\* only once the step before it is over, and when Primary answered with a text
\* that fails extraction the next call issued is the Secondary completion.
C12_StrictlyLinearSteps ==
  /\ \A j, k \in 1..Len(callLog) : j < k => StepRank(callLog[j]) <= StepRank(callLog[k])
  /\ Cardinality(CallsOf("openrouterCompletion")) <= 1
  /\ Cardinality(CallsOf("geminiCompletion")) <= 1
  /\ Cardinality(CallsOf("geminiSimpleCompletion")) <= 2
  /\ rcPc \in {"secondary", "repair"} => Len(callLog) >= 2
  /\ ( /\ Len(responses) >= 1
       /\ responses[1].call = "openrouterCompletion"
       /\ extractResearchResult(responses[1].content) = NullExtract )
       => /\ Len(callLog) >= 2
          /\ callLog[2] = "geminiCompletion"

\* the backend a provider call goes to
BackendOf(call) == IF call = "openrouterCompletion" THEN "openrouter" ELSE "gemini"

\* C18: whenever researchCompletion has returned, the provider it reports is the
\* backend of a response received during this call; when the result was
\* extracted from a response, it is the backend of that (the last) response; and
\* the attempts it reports equal 1 plus the number of repair calls made.
C18_ProviderAndAttempts ==
  (rcPc = "done" /\ outcome.kind = "returned") =>
    /\ \E k \in 1..Len(responses) : BackendOf(responses[k].call) = outcome.provider
    /\ ExtractionSucceeded(responses) =>
          /\ outcome.result = extractResearchResult(responses[Len(responses)].content)
          /\ outcome.provider = BackendOf(responses[Len(responses)].call)
    /\ outcome.attempts = 1 + Cardinality(CallsOf("geminiSimpleCompletion"))

----------------------------------------------------------------------------
(* Claims about extractJSON / extractResearchResult *)

\* the input text with white space and a code fence around it removed
Cleaned == StripFence(Trim(inputText))

\* the whole input is one JSON value that is not the embedded object
WholeTextIsOtherJSON ==
  /\ JSONParse(Cleaned).ok
  /\ JSONParse(Cleaned).val # JSONParse(embedded).val

\* a region of the text from a { to the } that brings the depth back to 0
HasBalancedRegion(txt) ==
  \E i \in 1..Len(txt) :
    txt[i] = "{" /\ ScanDepth(txt, i, i, 0, FALSE, FALSE).found

C20_NoRegionGivesNull ==
  (exPc = "done" /\ ~HasBalancedRegion(inputText)) => extractedResearch = NullExtract

----------------------------------------------------------------------------
(* processRows and processRequest *)

\* the number of events of one status emitted for row i
EventCount(i, status) ==
  Cardinality({k \in 1..Len(events[i]) : events[i][k].status = status})

\* both backends throw on every call made for row i
Outage(i) == rowEnv[i].primary = ReplyThrows /\ rowEnv[i].secondary = ReplyThrows

\* C13: for a batch of one row for which Primary and Secondary always throw,
\* processRows emits exactly one `error` event and no `completed` event for the
\* row and returns an empty mapping.
C13_OutageRowYieldsOneError ==
  (total = 1 /\ rowData[1] /\ Outage(1) /\ reqPc # "rows") =>
    /\ EventCount(1, "error") = 1
    /\ EventCount(1, "completed") = 0
    /\ resultsMap = <<>>

\* the last event emitted for row i
LastEvent(i) == events[i][Len(events[i])]

\* C14: a research call that rejects never aborts the batch: the row gets one
\* `error` event carrying the message, every other row is still processed and
\* reported, and the promise of processRows resolves and never rejects.
C14_HardFailureNeverAbortsBatch ==
  /\ [](batch # "rejected")
  /\ <>(reqPc # "rows")
  /\ [](reqPc # "rows" =>
         /\ batch = "resolved"
         /\ \A i \in 1..total :
              /\ events[i] # <<>>
              /\ IF rowData[i]
                 THEN /\ LastEvent(i).status = "completed"
                      /\ EventCount(i, "completed") = 1
                      /\ EventCount(i, "error") = 0
                 ELSE /\ LastEvent(i).status = "error"
                      /\ LastEvent(i).error = NoDataMessage
                      /\ EventCount(i, "error") = 1
                      /\ EventCount(i, "completed") = 0)

C14_Witness ==
  /\ reqPc = "done" /\ total = 3
  /\ rowData[1] /\ ~rowData[2] /\ rowData[3]
  /\ LastEvent(2).status = "error"
  /\ LastEvent(1).status = "completed" /\ LastEvent(3).status = "completed"
  /\ Len(resultsMap) = 2

\* the positions of the terminal events of row i
Terminals(i) ==
  {k \in 1..Len(events[i]) : events[i][k].status \in {"completed", "error"}}

\* C15: for every row a `processing` event precedes each start of its research
\* and every terminal event; once the row has settled - and not before - there
\* is exactly one terminal event for it, `completed` with the result or `error`
\* with a message, and it is the last event of the row.
C15_ProcessingThenOneTerminal ==
  \A i \in 1..total :
    /\ events[i] # <<>> => events[i][1].status = "processing"
    /\ \A k \in 1..Len(events[i]) :
         events[i][k].status = "research" =>
           k > 1 /\ events[i][k - 1].status = "processing"
    /\ IF pc[i] = "settled"
       THEN Terminals(i) = {Len(events[i])} /\ Len(events[i]) > 1
       ELSE Terminals(i) = {}
    /\ \A k \in Terminals(i) :
         IF events[i][k].status = "completed"
         THEN /\ events[i][k].result =
                   toResearchResult(rowResearch[i].result, "onProgress")
              /\ events[i][k].error = ""
         ELSE events[i][k].error # ""

C15_Witness ==
  /\ total = 2 /\ reqPc # "rows"
  /\ [k \in 1..Len(events[1]) |-> events[1][k].status] =
       <<"processing", "research", "processing", "research",
         "processing", "research", "error">>
  /\ [k \in 1..Len(events[2]) |-> events[2][k].status] =
       <<"processing", "research", "completed">>

\* the ids that are keys of the Map
Keys == {resultsMap[k].id : k \in 1..Len(resultsMap)}

\* the four fields a ResearchResult takes over from the extracted result
ResearchOf(value) ==
  [summary |-> value.summary, details |-> value.details,
   sources |-> value.sources, confidence |-> value.confidence]

\* C16: the keys of the Map that processRows returns are exactly the ids of the
\* rows with a `completed` event, each once and with the result of its research
\* call; no row that ended in `error` is a key.
C16_MapHoldsCompletedRows ==
  reqPc # "rows" =>
    /\ Keys = {i \in 1..total : EventCount(i, "completed") > 0}
    /\ Cardinality(Keys) = Len(resultsMap)
    /\ \A k \in 1..Len(resultsMap) :
         ResearchOf(resultsMap[k].value) = rowResearch[resultsMap[k].id].result
    /\ \A i \in 1..total : EventCount(i, "error") > 0 => i \notin Keys

C16_Witness ==
  /\ reqPc = "aggregate" /\ total = 3
  /\ EventCount(1, "completed") = 1 /\ EventCount(2, "error") = 1
  /\ EventCount(3, "completed") = 1
  /\ [k \in 1..Len(resultsMap) |-> resultsMap[k].id] = <<3, 1>>
  /\ resultsMap[1].value.timestamp = "collect"

\* Primary answers every call made for row i with a valid result
PrimaryValid(i) == rowData[i] /\ rowEnv[i].primary = ReplyValid

\* C17: for a batch of 3 rows for which Primary always answers with valid JSON,
\* the Map has 3 entries, no `error` event is emitted and the narrative sent
\* with research_complete is not empty.
C17_ThreeRowsPrimaryValid ==
  (reqPc = "done" /\ total = 3 /\ \A i \in 1..3 : PrimaryValid(i)) =>
    /\ Len(resultsMap) = 3
    /\ \A i \in 1..3 : EventCount(i, "error") = 0
    /\ sent.type = "research_complete"
    /\ sent.summary # <<>>

----------------------------------------------------------------------------
(* The salvage path of extractResearchResult *)

\* extractResearchResult took the salvage path: extractJSON returned a truthy
\* value that the schema rejects
Salvaged ==
  /\ exPc = "done"
  /\ extractedJson.ok /\ Truthy(extractedJson.val)
  /\ ~SchemaAccepts(extractedJson.val)

\* C21: every result returned through the salvage path has a confidence
\* between 0 and 1 (0..10 tenths) and a non-empty summary.
C21_SalvagedConfidenceAndSummary ==
  Salvaged =>
    /\ extractedResearch # NullExtract
    /\ extractedResearch.confidence >= 0 /\ extractedResearch.confidence <= 10
    /\ extractedResearch.summary # <<>>

\* C29: a salvaged result has a key-value mapping as details, the empty one
\* whenever the parsed details is not an object, and its sources, when present,
\* is an array of strings.
C29_SalvagedDetailsAndSources ==
  Salvaged =>
    /\ extractedResearch.details.t = "object"
    /\ GetMember(extractedJson.val, <<"details">>).t # "object" =>
         extractedResearch.details = EmptyObject
    /\ \/ extractedResearch.sources.t = "undefined"
       \/ /\ extractedResearch.sources.t = "array"
          /\ \A k \in 1..Len(extractedResearch.sources.items) :
               extractedResearch.sources.items[k].t = "string"

----------------------------------------------------------------------------
(* The depth walk of findJSONObject *)

\* the walk before it has read anything
WalkStart == [depth |-> 0, inString |-> FALSE, escape |-> FALSE]

\* the depth and the string-literal state once the characters start..i are read
RECURSIVE WalkAfter(_, _, _)
WalkAfter(text, start, i) ==
  IF i < start THEN WalkStart
  ELSE LET prev == WalkAfter(text, start, i - 1) IN
       CASE prev.escape -> [prev EXCEPT !.escape = FALSE]
         [] ~prev.escape /\ prev.inString /\ text[i] = "\\" -> [prev EXCEPT !.escape = TRUE]
         [] ~prev.escape /\ text[i] = "\"" -> [prev EXCEPT !.inString = ~prev.inString]
         [] ~prev.escape /\ ~prev.inString /\ text[i] = "{" ->
              [prev EXCEPT !.depth = prev.depth + 1]
         [] ~prev.escape /\ ~prev.inString /\ text[i] = "}" ->
              [prev EXCEPT !.depth = prev.depth - 1]
         [] OTHER -> prev

\* the positions of a } outside string literals at which the depth is zero again
DepthZeroAt(text, start) ==
  {i \in start..Len(text) :
     /\ text[i] = "}"
     /\ ~WalkAfter(text, start, i - 1).inString
     /\ WalkAfter(text, start, i).depth = 0}

\* C30: findJSONObject returns the text from the first { to the first position
\* at which the brace depth is zero again, braces counting only outside string
\* literals and an escaped quote in a string not ending it; it returns null
\* when the text has no { or the depth never returns to zero.
C30_FirstBraceToDepthZero ==
  exPc = "done" =>
    LET start == IndexOf(inputText, "{", 1)
        found == findJSONObject(inputText) IN
    IF start = 0 \/ DepthZeroAt(inputText, start) = {}
    THEN found = NoMatch
    ELSE \E end \in DepthZeroAt(inputText, start) :
           /\ \A i \in DepthZeroAt(inputText, start) : end <= i
           /\ found = Match(SubSeq(inputText, start, end))

\* the nested object, whose string holds a } and an escaped quote, is found in
\* front of a suffix
C30_Witness ==
  /\ exPc = "done"
  /\ embedded = O_NESTED /\ before = <<>>
  /\ Len(inputText) > Len(embedded)
  /\ findJSONObject(inputText) = Match(embedded)

----------------------------------------------------------------------------
(* reduceAggregate *)

\* the number of summaries reduceAggregate was given
SummaryCount == Len(reduction.summaries)

\* ceil(n / 5)
ChunkCount == (SummaryCount + 4) \div 5

\* the calls made so far at the given level
CallsAt(level) == {k \in 1..Len(reduction.calls) : reduction.calls[k].level = level}

\* C22: with n <= 5 summaries reduceAggregate issues exactly one aggregation
\* call; with n > 5 it issues exactly ceil(n/5) chunk-level calls, each over at
\* most 5 consecutive summaries, and exactly one final call, which starts only
\* after every chunk-level call has settled.
C22_OneCallOrChunksThenFinal ==
  reduction.pc # "start" =>
    IF SummaryCount <= 5
    THEN /\ Len(reduction.calls) = 1
         /\ reduction.calls[1].summaries = reduction.summaries
    ELSE /\ CallsAt("chunk") = 1..ChunkCount
         /\ CallsAt("direct") = {}
         /\ \A k \in 1..ChunkCount :
              /\ Len(reduction.calls[k].summaries) \in 1..5
              /\ \A j \in 1..Len(reduction.calls[k].summaries) :
                   reduction.calls[k].summaries[j] = reduction.summaries[5 * (k - 1) + j]
              /\ k < ChunkCount => Len(reduction.calls[k].summaries) = 5
              /\ k = ChunkCount =>
                   5 * (k - 1) + Len(reduction.calls[k].summaries) = SummaryCount
         /\ CallsAt("final") \subseteq {ChunkCount + 1}
         /\ Len(reduction.calls) <= ChunkCount + 1
         /\ CallsAt("final") # {} =>
              \A k \in 1..ChunkCount : reduction.calls[k].state # "pending"
         /\ reduction.pc \in {"final", "done"} => CallsAt("final") = {ChunkCount + 1}

\* 12 summaries: 3 chunk calls have settled and the final call is under way
C22_Witness ==
  /\ reduction # <<>> /\ reduction.pc = "final"
  /\ SummaryCount = 12
  /\ Len(reduction.calls) = 4
  /\ reduction.calls[3].summaries = <<reduction.summaries[11], reduction.summaries[12]>>
  /\ reduction.calls[4].state = "pending"

\* C23: the reduce has exactly two levels: for n > 5 the final call receives all
\* ceil(n/5) chunk summaries in a single call, also when ceil(n/5) exceeds 5, and
\* no call follows it.
C23_TwoLevelsOnly ==
  (reduction.pc \in {"final", "done"} /\ SummaryCount > 5) =>
    /\ Len(reduction.calls) = ChunkCount + 1
    /\ Len(reduction.calls[ChunkCount + 1].summaries) = ChunkCount
    /\ \A k \in 1..ChunkCount :
         reduction.calls[ChunkCount + 1].summaries[k] = reduction.calls[k].result
    /\ reduction.pc = "done" =>
         /\ reduction.calls[ChunkCount + 1].state # "pending"
         /\ reduction.result = reduction.calls[ChunkCount + 1].result

\* 26 summaries: the final call was given 6 chunk summaries and has settled
C23_Witness ==
  /\ reduction # <<>> /\ reduction.pc = "done"
  /\ SummaryCount = 26
  /\ Len(reduction.calls) = 7
  /\ Len(reduction.calls[7].summaries) = 6
  /\ reduction.calls[7].state = "ok"

\* the first 3 of the summaries, a space between them
FirstThreeJoined(summaries) ==
  CASE Len(summaries) = 0 -> <<>>
    [] Len(summaries) = 1 -> summaries[1]
    [] Len(summaries) = 2 -> summaries[1] \o <<" ">> \o summaries[2]
    [] OTHER -> summaries[1] \o <<" ">> \o summaries[2] \o <<" ">> \o summaries[3]

\* a failing call yields the first 3 summaries it was given and nothing fails
\* reduceAggregate
FailuresContained ==
  /\ reduction.pc \in {"start", "chunks", "final", "done"}
  /\ \A k \in 1..Len(reduction.calls) :
       reduction.calls[k].state = "failed" =>
         reduction.calls[k].result = FirstThreeJoined(reduction.calls[k].summaries)
  /\ reduction.pc = "done" =>
       reduction.result = reduction.calls[Len(reduction.calls)].result

\* C24: an aggregation call that fails never propagates its error: it yields
\* the concatenation of the first 3 summaries it was given, and reduceAggregate
\* resolves for every combination of failing chunk-level and final calls.
C24_FailingCallsFallBack == [](FailuresContained) /\ <>(reduction.pc = "done")

\* every chunk-level call and the final call failed, and reduceAggregate resolved
C24_Witness ==
  /\ reduction # <<>> /\ reduction.pc = "done"
  /\ SummaryCount = 12
  /\ \A k \in 1..Len(reduction.calls) : reduction.calls[k].state = "failed"
  /\ reduction.result =
       <<"s", "1", " ", "s", "2", " ", "s", "3", " ",
         "s", "6", " ", "s", "7", " ", "s", "8", " ",
         "s", "11", " ", "s", "12">>

----------------------------------------------------------------------------
(* generateVoiceSummary and the end of processRequest *)

\* C25: generateVoiceSummary issues exactly one provider call and never fails:
\* it returns what the call resolved with, and if the call throws, the template
\* built from the entity count and the aggregated text.
C25_VoiceSummaryOneCallNeverFails ==
  /\ reqPc \in {"rows", "aggregate", "voice"} => voiceCalls = <<>>
  /\ (reqPc \in {"tts", "done"} /\ Len(resultsMap) > 0) =>
       /\ Len(voiceCalls) = 1
       /\ voiceCalls[1].ok => voiceSummary = voiceCalls[1].content
       /\ ~voiceCalls[1].ok =>
            voiceSummary = <<"I've completed research on ", ToString(Len(resultsMap)),
                             " items. ">> \o aggregated

\* the call threw after an aggregation that returned a text: the template with
\* the count of 2 rows went to text-to-speech
C25_Witness ==
  /\ reqPc = "tts" /\ Len(resultsMap) = 2
  /\ aggregated = <<"All", " ", "rows", " ", "look", " ", "fine.">>
  /\ voiceCalls = <<ReplyThrows>>
  /\ voiceSummary = <<"I've completed research on ", "2", " items. ",
                      "All", " ", "rows", " ", "look", " ", "fine.">>

\* the rows for which a `completed` event was emitted
SucceededRows == {i \in 1..total : EventCount(i, "completed") > 0}

\* research_complete was sent with the narrative and the counts
CompleteSent ==
  /\ sent.type = "research_complete"
  /\ sent.summary = voiceSummary
  /\ sent.totalProcessed = Cardinality(SucceededRows)
  /\ sent.totalRows = total

----------------------------------------------------------------------------
(* processSingleRow *)

\* the statuses of the events processSingleRow has emitted
SingleRowStatuses == [k \in 1..Len(singleRow.events) |-> singleRow.events[k].status]

\* C28: processSingleRow emits `processing`, then exactly one of `completed`
\* with the result or `error` with the message, returns the result or null
\* accordingly, and never throws.
C28_SingleRowContract ==
  /\ singleRow.pc \in {"start", "research", "done"}
  /\ singleRow.pc = "start" => singleRow.events = <<>>
  /\ singleRow.pc = "research" => SingleRowStatuses = <<"processing">>
  /\ singleRow.pc = "done" =>
       \/ /\ SingleRowStatuses = <<"processing", "completed">>
          /\ outcome.kind = "returned"
          /\ ResearchOf(singleRow.events[2].result) = outcome.result
          /\ ~singleRow.returned.null
          /\ singleRow.returned.value = singleRow.events[2].result
       \/ /\ SingleRowStatuses = <<"processing", "error">>
          /\ outcome = NoOutcome
          /\ singleRow.events[2].error = "Cannot convert undefined or null to object"
          /\ singleRow.returned.null

\* the row was answered by Secondary and processSingleRow returned its result
C28_Witness ==
  /\ singleRow # <<>> /\ singleRow.pc = "done"
  /\ SingleRowStatuses = <<"processing", "completed">>
  /\ outcome.provider = "gemini"
  /\ singleRow.returned.value.summary = outcome.result.summary

----------------------------------------------------------------------------
(* mapSummarize *)

\* the words of a text: its maximal runs of tokens that are not white space
Words(text) == SelectSeq(SplitAtWs(text, 1, Len(text)), NonEmptyWord)

\* the summary of a result followed by its first 3 key_findings, untruncated
WithFindings(result) ==
  LET findings == GetMember(result.details, <<"key_findings">>).items IN
  IF findings = <<>> THEN result.summary
  ELSE result.summary \o <<" ", "Key", " ", "findings:", " ">>
       \o findings[1].s \o <<";", " ">> \o findings[2].s \o <<";", " ">> \o findings[3].s

\* the text capped at 200 words: its first 200 words and the ellipsis marker if
\* it has more, the text itself otherwise
CappedAs(text, words) ==
  IF Len(words) > 200
  THEN Append(JoinRange(words, 1, 200, " "), "...")
  ELSE text

Capped(text) == CHOOSE capped \in {CappedAs(text, words) : words \in {Words(text)}} : TRUE

\* C26: mapSummarize returns one summary per result, in input order, built from
\* the result's summary and at most its first 3 key_findings and capped at 200
\* words: more than 200 words give exactly the first 200 words and the ellipsis
\* marker, a shorter text is returned unchanged.
C26_SummariesCappedAt200Words ==
  mapped.pc = "done" =>
    /\ Len(mapped.summaries) = Len(mapped.results)
    /\ \A k \in 1..Len(mapped.results) :
         mapped.summaries[k] = Capped(WithFindings(mapped.results[k]))

\* the same for results whose text neither starts nor ends with white space
C26_UnpaddedSummariesCapped ==
  mapped.pc = "done" =>
    /\ Len(mapped.summaries) = Len(mapped.results)
    /\ \A k \in 1..Len(mapped.results) :
         LET text == WithFindings(mapped.results[k]) IN
         (~IsWs(text[1]) /\ ~IsWs(text[Len(text)])) =>
           mapped.summaries[k] = Capped(text)

----------------------------------------------------------------------------
(* C31: what a repair prompt embeds *)

RECURSIVE Flat(_, _)

\* the characters of the tokens of text from the k-th on, as one string
Flat(text, k) == IF k > Len(text) THEN "" ELSE text[k] \o Flat(text, k + 1)

Min(a, b) == IF a < b THEN a ELSE b

\* The prompt holds, right after its header, the first 500 characters of the
\* response (all of it when it is shorter), then '...' exactly when something
\* was cut off, and further on the query after 'Original request: '.
EmbedsCopyAndQuery(prompt, response, original) ==
  \E n \in 0..Len(response) :
    LET copy == SubSeq(prompt, Len(RepairHeader) + 1, Len(RepairHeader) + n)
        kept == Min(REPAIR_COPY_CHARS, TextLength(response, 1))
        rest == SubSeq(prompt, Len(RepairHeader) + n + 1, Len(prompt))
    IN  /\ TextLength(copy, 1) = kept
        /\ Flat(copy, 1) = SubSeq(Flat(response, 1), 1, kept)
        /\ rest = (IF TextLength(response, 1) > kept THEN <<"...">> ELSE <<>>)
                    \o RepairRequest \o original \o RepairReminder

\* the createRepairPrompt call made in this step, if one was made
RepairIssued == Len(repairArgs') > Len(repairArgs)

IssuedCall == repairArgs'[Len(repairArgs')]

\* C31: every repair prompt embeds the original query and a copy of the
\* malformed response cut to at most its first 500 characters, and the response
\* it embeds is the most recent response received in this research call.
C31_RepairPromptEmbedsLatestResponse ==
  [][RepairIssued =>
       /\ EmbedsCopyAndQuery(IssuedCall.prompt, IssuedCall.malformedResponse, query)
       /\ responses' # <<>>
       /\ IssuedCall.malformedResponse = responses'[Len(responses')].content]_vars

\* C31, for the repair prompts issued after at least one response was received:
\* they embed the query and the first 500 characters of the most recent response,
\* also when a repair call in between threw; a repair prompt issued when no call
\* has answered yet embeds the empty text.
C31_RepairPromptEmbedsLatestResponseIfAny ==
  [][RepairIssued =>
       /\ EmbedsCopyAndQuery(IssuedCall.prompt, IssuedCall.malformedResponse, query)
       /\ IssuedCall.originalPrompt = query
       /\ IF responses' # <<>>
          THEN IssuedCall.malformedResponse = responses'[Len(responses')].content
          ELSE IssuedCall.malformedResponse = <<>>]_vars

\* a second repair prompt was issued after the first repair call threw, and it
\* embeds a response of more than 500 characters, cut
C31_Witness ==
  /\ Len(repairArgs) = 2
  /\ Len(responses) = 1
  /\ TextLength(repairArgs[2].malformedResponse, 1) > REPAIR_COPY_CHARS
  /\ repairArgs[2].malformedResponse = responses[1].content

\* a repair prompt was issued although no provider call had answered
C31_NoResponseWitness ==
  /\ Len(repairArgs) = 1
  /\ responses = <<>>

----------------------------------------------------------------------------
(* C32: the returned array against the order in which the items complete *)

\* the items in the order in which they were submitted: items.map
SubmissionOrder == [k \in 1..total |-> k]

\* C32: the array processWithRetry returns has one entry per item in submission
\* order, each carrying its own item and that item's outcome, whatever the order
\* in which the items completed.
C32_ReturnedInSubmissionOrder ==
  batch = "resolved" =>
    /\ Len(progressItems) = total
    /\ {progressItems[k] : k \in 1..total} = 1..total
    /\ [k \in 1..Len(returned) |-> returned[k].item] = SubmissionOrder
    /\ \A k \in 1..total :
         /\ returned[k] = results[k]
         /\ returned[k].result = progressCalls[k][1].result
         /\ returned[k].result # Null => returned[k].result = ResultOf(k)

\* three items under a cap of two completed in the order 2, 3, 1: the third
\* started in the slot the second left, the first one was retried and failed
C32_Witness ==
  /\ batch = "resolved"
  /\ concurrency = 2
  /\ progressItems = <<2, 3, 1>>
  /\ returned[1].result = Null
  /\ returned[2].result # Null

----------------------------------------------------------------------------
(* C33: the slot of an item during its backoff *)

Sleeping == {i \in Items : pc[i] = "sleeping"}

\* C33: an item holds its slot from its first attempt until it settles, its
\* backoff sleeps included: the slots in use are those of the running and the
\* sleeping items, they never exceed `concurrency`, an item gives its slot up
\* only by settling, and no queued item starts while `concurrency` items are
\* waiting in backoff.
C33_SlotHeldDuringBackoff ==
  /\ [](/\ activeCount = Cardinality(HoldingSlot)
        /\ Cardinality(HoldingSlot) <= concurrency)
  /\ [][\A i \in Items :
          /\ (i \in HoldingSlot /\ pc'[i] # "settled") => i \in HoldingSlot'
          /\ (pc[i] = "queued" /\ pc'[i] = "calling")
                => Cardinality(Sleeping) < concurrency]_vars

\* every slot is taken by an item waiting in backoff while another item is queued
C33_Witness ==
  /\ Cardinality(Sleeping) = concurrency
  /\ queue # <<>>

----------------------------------------------------------------------------
(* C34: the invocations and sleeps of an item that always fails *)

\* the step is the failure of an invocation of item i's processor
CallFails(i) ==
  /\ pc[i] = "calling"
  /\ \/ pc'[i] = "sleeping"
     \/ invocations'[i] > invocations[i]
     \/ pc'[i] = "settled" /\ results'[i].result = Null

ReportedFailed(i) ==
  /\ pc[i] = "settled"
  /\ results[i].result = Null

\* C34: of an item whose processor fails every time, each failed invocation but
\* the last is followed by one backoff sleep and then by the next invocation, the
\* maxRetries-th failure is followed by no sleep but by the report of the failure
\* (result null, the last error), so that the processor has been invoked exactly
\* maxRetries times with maxRetries - 1 sleeps in between.
C34_AlwaysFailingItem ==
  /\ [](\A i \in Items :
          /\ pc[i] \in {"calling", "sleeping"} => invocations[i] = attempt[i] + 1
          /\ pc[i] = "sleeping" => invocations[i] <= maxRetries - 1
          /\ pc[i] = "calling" => invocations[i] <= maxRetries
          /\ ReportedFailed(i) =>
               /\ invocations[i] = maxRetries
               /\ results[i].error.at = maxRetries - 1
               /\ progressCalls[i] = <<[result |-> Null, error |-> results[i].error]>>)
  /\ [][\A i \in Items :
          /\ CallFails(i) =>
               IF invocations[i] < maxRetries
               THEN /\ pc'[i] = "sleeping"
                    /\ sleepMs'[i] > 0
                    /\ invocations'[i] = invocations[i]
               ELSE /\ ReportedFailed(i)'
                    /\ invocations'[i] = invocations[i]
          /\ (pc[i] = "sleeping" /\ pc'[i] # "sleeping") =>
               /\ pc'[i] = "calling"
               /\ invocations'[i] = invocations[i] + 1]_vars

\* under the default of 3 an item has been reported failed after its third
\* invocation failed
C34_Witness ==
  /\ maxRetries = MAX_RETRIES
  /\ \E i \in 1..total :
       /\ ReportedFailed(i)
       /\ invocations[i] = MAX_RETRIES
       /\ results[i].error.at = MAX_RETRIES - 1

----------------------------------------------------------------------------
(* C35: a progress callback that throws while it is told of a success *)

\* the processor of item i has resolved: onProgress was called with its result
Succeeded(i) == \E k \in 1..Len(progressCalls[i]) : progressCalls[i][k].result # Null

\* C35: once the processor of an item has succeeded it is not invoked again for
\* that item and `completed` is incremented exactly once for it, also when
\* onProgress throws while reporting the success; `completed` never exceeds N.
C35_SuccessCountedOnce ==
  /\ [](/\ completed <= total
        /\ \A i \in Items : Len(progressCalls[i]) <= 1
        /\ completed = Cardinality({i \in Items : progressCalls[i] # <<>>}))
  /\ [][\A i \in Items : Succeeded(i) => invocations'[i] = invocations[i]]_vars

\* the processor of an item was invoked again after it had succeeded
C35_ReinvokedWitness ==
  \E i \in 1..total : Succeeded(i) /\ pc[i] = "calling" /\ invocations[i] = 2

\* `completed` has passed the number of items
C35_OvercountWitness == completed > total

----------------------------------------------------------------------------
(* C36: the provider calls one row causes *)

\* the research calls begun for row i
ResearchCalls(i) == EventCount(i, "research")

\* how many times the provider function `name` was called for row i: a research
\* call on a row without data rejects before it calls any provider
ProviderCalls(i, name) ==
  IF rowData[i]
  THEN ResearchCalls(i)
         * Cardinality({k \in 1..Len(rowResearch[i].calls) :
                          rowResearch[i].calls[k] = name})
  ELSE 0

ProviderFunctions == {"openrouterCompletion", "geminiCompletion", "geminiSimpleCompletion"}

RECURSIVE SumCalls(_, _)
SumCalls(i, names) ==
  IF names = {} THEN 0
  ELSE LET name == CHOOSE n \in names : TRUE
       IN ProviderCalls(i, name) + SumCalls(i, names \ {name})

AtMostFourCalls(i) ==
  /\ SumCalls(i, ProviderFunctions) <= 4
  /\ ProviderCalls(i, "openrouterCompletion") <= 1
  /\ ProviderCalls(i, "geminiCompletion") <= 1
  /\ ProviderCalls(i, "geminiSimpleCompletion") <= MAX_REPAIR_ATTEMPTS
  /\ rowData[i] => Len(rowResearch[i].calls) = SumCalls(i, ProviderFunctions)
                     \/ ResearchCalls(i) = 0

\* C36 as stated: a row causes at most 4 provider calls (one Primary, one
\* Secondary, two repairs) because its research call is invoked exactly once and
\* the rate limiter never runs the processor a second time.
C36_OneResearchCallPerRow ==
  \A i \in 1..total :
    /\ AtMostFourCalls(i)
    /\ ResearchCalls(i) <= 1
    /\ invocations[i] <= 1
    /\ pc[i] = "settled" => ResearchCalls(i) = 1

\* C36: a row causes at most 4 provider calls (one Primary, one Secondary, two
\* repairs): for a row with data the research call is invoked exactly once and
\* never rejects, so the rate limiter never re-runs it; for a row without data
\* the research call rejects before any provider call and the rate limiter
\* re-runs it up to maxRetries times, none of the runs calling a provider.
C36_AtMostFourProviderCalls ==
  \A i \in 1..total :
    /\ AtMostFourCalls(i)
    /\ ResearchCalls(i) = invocations[i]
    /\ rowData[i] =>
         /\ invocations[i] <= 1
         /\ pc[i] = "settled" => ResearchCalls(i) = 1 /\ results[i].result # Null
    /\ ~rowData[i] =>
         /\ invocations[i] <= maxRetries
         /\ SumCalls(i, ProviderFunctions) = 0
         /\ pc[i] = "settled" => ResearchCalls(i) = maxRetries

\* one row caused four provider calls in one research call, another, without
\* data, had its research call run three times without any provider call
C36_Witness ==
  /\ batch = "resolved"
  /\ \E i, j \in 1..total :
       /\ rowData[i] /\ SumCalls(i, ProviderFunctions) = 4 /\ ResearchCalls(i) = 1
       /\ ~rowData[j] /\ ResearchCalls(j) = MAX_RETRIES

----------------------------------------------------------------------------
(* C37: a Primary call that settles after its timeout *)

\* the step is the settlement of the Primary call after the race was decided
LatePrimaryStep == rcPc # "primary" /\ primaryPending /\ ~primaryPending'

\* the texts the Secondary completion answered with
SecondaryResponses ==
  {responses[k].content :
     k \in {n \in 1..Len(responses) : responses[n].call = "geminiCompletion"}}

\* C37: after Primary's timeout the Primary call is left running while the
\* Secondary call is made, and its late response or error changes nothing: what
\* llmCompletion returns (response, provider gemini, fallbackUsed) or throws is
\* that of the timeout and of Secondary, whether the Primary call settles
\* before or after Secondary.
C37_LatePrimaryHasNoEffect ==
  /\ [][LatePrimaryStep =>
          UNCHANGED <<rcPc, attempts, lastResponse, lastProvider, orch, llmError,
                      primaryError, callLog, repairArgs, responses, outcome>>]_vars
  /\ [][(rcPc = "primary" /\ primaryError' = TimeoutMessage)
          => (primaryPending' /\ rcPc' = "secondary")]_vars
  /\ [](primaryError = TimeoutMessage =>
          /\ orch # NoOrch =>
               /\ \E content \in SecondaryResponses : orch = FallbackResult(content)
               /\ orch.provider = "gemini" /\ orch.fallbackUsed
          /\ llmError # NoLlmError =>
               /\ llmError.openrouter = TimeoutMessage
               /\ llmError.gemini \in ProviderErrors
               /\ orch = NoOrch)

\* the timed-out Primary call has settled, the timer has fired, and llmCompletion
\* has returned what Secondary answered
C37_Witness ==
  /\ primaryError = TimeoutMessage
  /\ ~primaryPending /\ ~timerPending
  /\ orch = FallbackResult(T_VALID)
  /\ outcome.kind = "returned"

----------------------------------------------------------------------------
(* C38: the messages of one processRequest *)

TerminalTypes == {"research_complete", "error"}

\* the messages the ordering is about: audio_chunk announces the end of the
\* audio and is no part of it
IsProtocolMessage(type) == type # "audio_chunk"

ProtocolMessages == SelectSeq(messages, IsProtocolMessage)

\* one `status` first, research_update messages after it, and a terminal
\* message, sent exactly when processRequest has finished, last
StatusUpdatesTerminal(m) ==
  /\ m # <<>>
  /\ m[1] = "status"
  /\ \A k \in 2..Len(m) : m[k] \in {"research_update"} \cup TerminalTypes
  /\ \A k \in 1..Len(m) : m[k] \in TerminalTypes => k = Len(m)
  /\ (reqPc = "done") <=> m[Len(m)] \in TerminalTypes

\* C38: for one processRequest call the messages are sent in the order: one
\* `status`, then all research_update messages, then exactly one terminal
\* message, research_complete or error and never both; and processRequest
\* itself never rejects.
C38_StatusUpdatesTerminalNeverRejects ==
  /\ reqPc # "rejected"
  /\ reqPc # "start" => StatusUpdatesTerminal(ProtocolMessages)

\* What holds of it: a processRequest call that does not reject sends its
\* messages in that order.
C38_OrderedUnlessRejected ==
  reqPc \notin {"start", "rejected"} => StatusUpdatesTerminal(ProtocolMessages)

\* a request of three rows has ended with research_complete after six
\* research_update messages
C38_CompleteWitness ==
  /\ reqPc = "done" /\ total = 3
  /\ Len(ProtocolMessages) = 8
  /\ ProtocolMessages[8] = "research_complete"

\* a request whose rows are not an array has ended with `error`
C38_ErrorWitness == reqPc = "done" /\ ProtocolMessages = <<"status", "error">>

\* processRequest has rejected without sending any message
C38_RejectedWitness == reqPc = "rejected" /\ messages = <<>>

----------------------------------------------------------------------------
(* C39: the promise and the callbacks of openrouterStream *)

\* how often openrouterStream has called the callback of that name
StreamCalls(name) ==
  Cardinality({k \in 1..Len(stream.calls) : stream.calls[k] = name})

\* C39: once the response stream has ended or failed the promise
\* openrouterStream returned is settled, onComplete has been called at most
\* once, and never together with onError.
C39_SettlesAndCompletesAtMostOnce ==
  /\ stream.pc = "ended" => stream.promise # "pending"
  /\ StreamCalls("complete") <= 1
  /\ ~(StreamCalls("complete") > 0 /\ StreamCalls("error") > 0)

\* the stream ended without any content and the promise is still pending
C39_NeverSettlesWitness ==
  /\ stream.pc = "ended" /\ stream.fullContent = <<>>
  /\ stream.calls = <<>>
  /\ stream.promise = "pending" /\ stream.caller = "pending"

\* `[DONE]` after a content, then the end event: onComplete was called twice
C39_CompletedTwiceWitness ==
  /\ stream.pc = "ended"
  /\ stream.calls = <<"chunk", "complete", "complete">>

\* `[DONE]`, then the error event: onComplete and onError were both called
C39_CompleteAndErrorWitness ==
  /\ stream.pc = "ended"
  /\ stream.calls = <<"complete", "error">>
  /\ stream.promise = "resolved"

\* What holds of it: the promise settles at most once, the caller gets the
\* stream's result, and a stream that ended with content has completed.
C39_EndedWithContentHasSettled ==
  /\ (stream.pc = "ended" /\ stream.fullContent # <<>>) => stream.promise # "pending"
  /\ stream.promise = "resolved" => stream.caller = "resolved"
  /\ stream.promise = "pending" => stream.caller = "pending"

----------------------------------------------------------------------------
(* C40: the sockets of useWebSocket *)

\* the sockets that are connecting or open
LiveSockets ==
  {s \in 1..Len(hook.sockets) : hook.sockets[s] \in {"connecting", "open"}}

\* C40: at most one socket is open or connecting and wsRef refers to it; the
\* reconnects made since a socket last opened are at most reconnectAttempts;
\* no reconnect is pending after disconnect().
C40_OneSocketBoundedReconnects ==
  /\ Cardinality(LiveSockets) <= 1
  /\ \A s \in LiveSockets : hook.wsRef = s
  /\ hook.sinceOpen <= hook.reconnectAttempts
  /\ hook.disconnected => hook.timers = 0

\* two sockets are connecting at once
C40_TwoSocketsWitness ==
  /\ Len(hook.sockets) = 2
  /\ hook.sockets = <<"connecting", "connecting">>

\* the close event of the socket disconnect() closed has cleared the
\* reference to the socket the next connect() made
C40_ReferenceClearedWitness ==
  /\ hook.sockets = <<"closed", "open">>
  /\ hook.wsRef = 0

\* a reconnect timer is pending after disconnect()
C40_TimerAfterDisconnectWitness ==
  /\ hook.disconnected
  /\ hook.timers > 0

\* with reconnectAttempts 1, two reconnect timers have fired since a socket
\* last opened: one of them was set before it opened
C40_ReconnectsExceedWitness ==
  /\ hook.reconnectAttempts = 1
  /\ hook.sinceOpen = 2

\* What holds of it: reconnectCount stays within reconnectAttempts, and wsRef
\* never names a closed socket.
C40_CountBoundedRefNotClosed ==
  /\ hook.reconnectCount <= hook.reconnectAttempts
  /\ hook.wsRef # 0 => hook.sockets[hook.wsRef] # "closed"
====
